---- MODULE Spec2Model ----
(***************************************************************************)
(* A model of the PLC runtime core: the configuration ingestor            *)
(* (conf_task_manager.c), the variable store (variables.c), the element   *)
(* library (ladder_elements.c), the blob persistence (nvs_utils.c) and    *)
(* the boot path (app_main).                                               *)
(*                                                                         *)
(* Strings of the C code are modelled as pairs <<stem, ext>>: ext is the  *)
(* text from the last '.' of the string on ("" when the string holds no   *)
(* dot), stem is what precedes it.  Doubles are modelled as integers.     *)
(* A byte of a document is a token: a body token (the text from the       *)
(* opening brace to the last byte before the closing one), "}" or "ws" (a *)
(* white-space byte).                                                      *)
(***************************************************************************)
EXTENDS Integers, Sequences, FiniteSets, TLC

VARIABLES
    large_buffer,      \* conf_task_manager.c: large_buffer[0..total_received)
    config_timeout_timer, \* [created, active, left]: the one-shot FreeRTOS timer
    tasks,             \* conf_task_manager.c: tasks[0..num_tasks)
    wtasks,            \* the FreeRTOS wire tasks that exist: handle -> task state
    cfg,               \* the configure() call in progress: its position and locals
    nvs_blob,          \* NVS ("storage", "json_config"): <<>> when the key is absent
    variables_list,    \* variables.c: variables_list.nodes[0..count)
    samplers,          \* variables.c: the sampler task handles that are non-NULL
    device,            \* device_config.c: _device
    gpio_out,          \* GPIO output latch of each pin
    gpio_in,           \* level applied from outside to each pin
    one_shot_states,   \* ladder_elements.c: one_shot_states[0..one_shot_count)
    timer_states,      \* ladder_elements.c: timer_states[0..timer_state_count)
    now,               \* esp_timer_get_time(), in ms
    fault,             \* "none", or the CPU exception that stopped the firmware
    pending,           \* bytes of the document in transmission not yet delivered
    mqtt,              \* mqtt.c: the statics of the module, its watchdog task, the tick count
    sensor_states,     \* the one-wire search: its static list of [pin, address, detection_count]
    ble,               \* ble.c: ble_mtu, the statics of the three read handlers, the last response
    hist               \* history of the run, read only by the properties

vars == <<large_buffer, config_timeout_timer, tasks, wtasks, cfg, nvs_blob,
          variables_list, samplers, device, gpio_out, gpio_in,
          one_shot_states, timer_states, now, fault, pending, mqtt,
          sensor_states, ble, hist>>

----------------------------------------------------------------------------
(* Program constants *)

CONFIG_TIMEOUT_MS == 10000
MAX_ONE_SHOT_STATES == 64
MAX_TIMER_STATES == 32

(* Strings *)
S(stem) == <<stem, "">>
SX(stem, ext) == <<stem, ext>>
NoSuffix == "NULL"

RecognisedSuffixes ==
    {".CU", ".CD", ".QU", ".QD", ".IN", ".Q", ".PV", ".CV", ".PT", ".ET"}

\* parse_variable_name: a recognised suffix after the last dot splits the
\* name; any other name is the base name as a whole and suffix stays NULL.
parse_variable_name(var_name) ==
    IF var_name[2] \in RecognisedSuffixes
    THEN [base |-> S(var_name[1]), suffix |-> var_name[2]]
    ELSE [base |-> var_name, suffix |-> NoSuffix]

----------------------------------------------------------------------------
(* Device descriptor and GPIO driver *)

EmptyDevice ==
    [digital_inputs |-> <<>>, digital_inputs_names |-> <<>>,
     digital_outputs |-> <<>>, digital_outputs_names |-> <<>>,
     parent_devices |-> <<>>]

Min(a, b) == IF a < b THEN a ELSE b

\* find_pin_by_name: 0 when no list holds the name, else the pin's number.
\* Digital inputs are searched before digital outputs.
find_pin_by_name(dev, pin_name) ==
    LET nin == Min(Len(dev.digital_inputs_names), Len(dev.digital_inputs))
        nout == Min(Len(dev.digital_outputs_names), Len(dev.digital_outputs))
        ins == {i \in 1..nin : dev.digital_inputs_names[i] = pin_name}
        outs == {i \in 1..nout : dev.digital_outputs_names[i] = pin_name}
    IN IF ins # {} THEN dev.digital_inputs[CHOOSE i \in ins : \A j \in ins : i <= j]
       ELSE IF outs # {}
            THEN dev.digital_outputs[CHOOSE i \in outs : \A j \in outs : i <= j]
            ELSE 0

\* gpio_get_level: a pin configured GPIO_MODE_INPUT_OUTPUT reads back its
\* latch, a pin configured GPIO_MODE_INPUT reads the level applied to it.
gpio_get_level(m, pin) ==
    IF \E i \in 1..Len(m.dev.digital_outputs) : m.dev.digital_outputs[i] = pin
    THEN m.gpio_out[pin]
    ELSE m.gpio_in[pin]

\* get_digital_input_value / get_digital_output_value: "return -1" of a bool
\* function is true.
get_digital_value(m, pin_name) ==
    LET pin == find_pin_by_name(m.dev, pin_name)
    IN IF pin = 0 THEN TRUE ELSE gpio_get_level(m, pin)

\* set_digital_output_value: gpio_set_level on whatever pin bears the name.
set_digital_output_value(m, pin_name, value) ==
    LET pin == find_pin_by_name(m.dev, pin_name)
    IN IF pin = 0 THEN m
       ELSE [m EXCEPT !.gpio_out = [m.gpio_out EXCEPT ![pin] = value]]

----------------------------------------------------------------------------
(* Variable store *)

\* find_variable: the index of the first node bearing the name, 0 for NULL.
find_variable(list, search_name) ==
    LET hits == {i \in 1..Len(list) : list[i].name = search_name}
    IN IF hits = {} THEN 0 ELSE CHOOSE i \in hits : \A j \in hits : i <= j

\* A CPU exception ends the run of the firmware: nothing is executed after it.
Raise(m, what) == IF m.fault = "none" THEN [m EXCEPT !.fault = what] ELSE m

SetField(m, i, f, v) ==
    [m EXCEPT !.vars = [m.vars EXCEPT ![i] = [m.vars[i] EXCEPT ![f] = v]]]

BoolField(suffix) ==
    CASE suffix = ".CU" -> "cu" [] suffix = ".CD" -> "cd"
      [] suffix = ".QU" -> "qu" [] suffix = ".QD" -> "qd"
      [] suffix = ".IN" -> "in" [] suffix = ".Q" -> "q"
      [] OTHER -> "none"

NumField(suffix) ==
    CASE suffix = ".PV" -> "pv" [] suffix = ".CV" -> "cv"
      [] suffix = ".PT" -> "pt" [] suffix = ".ET" -> "et"
      [] OTHER -> "none"

CounterBools == {"cu", "cd", "qu", "qd"}
TimerBools == {"in", "q"}
CounterNums == {"pv", "cv"}
TimerNums == {"pt", "et"}

\* read_variable: [m, ret].  node->type is read without a NULL check, and a
\* Counter or Timer compares variable_parameter with strcmp without one.
read_variable(m, var_name) ==
    LET p == parse_variable_name(var_name)
        i == find_variable(m.vars, p.base)
    IN IF m.fault # "none" THEN [m |-> m, ret |-> FALSE]
       ELSE IF i = 0 THEN [m |-> Raise(m, "null_node"), ret |-> FALSE]
       ELSE LET node == m.vars[i] IN
         CASE node.type = "DIGITAL_ANALOG_IO" ->
                [m |-> m,
                 ret |-> IF node.tstr \in {"Digital Input", "Digital Output"}
                         THEN get_digital_value(m, node.pin_number)
                         ELSE FALSE]
           [] node.type = "BOOLEAN" -> [m |-> m, ret |-> node.value]
           [] node.type \in {"COUNTER", "TIMER"} ->
                IF p.suffix = NoSuffix
                THEN [m |-> Raise(m, "null_suffix"), ret |-> FALSE]
                ELSE LET f == BoolField(p.suffix)
                         ok == IF node.type = "COUNTER" THEN f \in CounterBools
                               ELSE f \in TimerBools
                     IN [m |-> m, ret |-> IF ok THEN node[f] ELSE FALSE]
           [] OTHER -> [m |-> m, ret |-> FALSE]

\* write_variable: every DIGITAL_ANALOG_IO node goes to set_digital_output_value.
write_variable(m, var_name, value) ==
    LET p == parse_variable_name(var_name)
        i == find_variable(m.vars, p.base)
    IN IF m.fault # "none" THEN m
       ELSE IF i = 0 THEN Raise(m, "null_node")
       ELSE LET node == m.vars[i] IN
         CASE node.type = "DIGITAL_ANALOG_IO" ->
                set_digital_output_value(m, node.pin_number, value)
           [] node.type = "BOOLEAN" -> SetField(m, i, "value", value)
           [] node.type \in {"COUNTER", "TIMER"} ->
                IF p.suffix = NoSuffix THEN Raise(m, "null_suffix")
                ELSE LET f == BoolField(p.suffix)
                         ok == IF node.type = "COUNTER" THEN f \in CounterBools
                               ELSE f \in TimerBools
                     IN IF ok THEN SetField(m, i, f, value) ELSE m
           [] OTHER -> m

\* read_numeric_variable: [m, ret].
read_numeric_variable(m, var_name) ==
    LET p == parse_variable_name(var_name)
        i == find_variable(m.vars, p.base)
    IN IF m.fault # "none" THEN [m |-> m, ret |-> 0]
       ELSE IF i = 0 THEN [m |-> Raise(m, "null_node"), ret |-> 0]
       ELSE LET node == m.vars[i] IN
         CASE node.type = "DIGITAL_ANALOG_IO" ->
                [m |-> m,
                 ret |-> IF node.tstr = "Analog Input"
                         THEN (IF get_digital_value(m, node.pin_number) THEN 1 ELSE 0)
                         ELSE IF node.tstr = "Analog Output" THEN -1 ELSE 0]
           [] node.type \in {"ONE_WIRE", "ADC_SENSOR", "NUMBER", "TIME"} ->
                [m |-> m, ret |-> node.value]
           [] node.type \in {"COUNTER", "TIMER"} ->
                IF p.suffix = NoSuffix
                THEN [m |-> Raise(m, "null_suffix"), ret |-> 0]
                ELSE LET f == NumField(p.suffix)
                         ok == IF node.type = "COUNTER" THEN f \in CounterNums
                               ELSE f \in TimerNums
                     IN [m |-> m, ret |-> IF ok THEN node[f] ELSE 0]
           [] OTHER -> [m |-> m, ret |-> 0]

\* write_numeric_variable: set_analog_output_value is not implemented (a no-op).
write_numeric_variable(m, var_name, value) ==
    LET p == parse_variable_name(var_name)
        i == find_variable(m.vars, p.base)
    IN IF m.fault # "none" THEN m
       ELSE IF i = 0 THEN Raise(m, "null_node")
       ELSE LET node == m.vars[i] IN
         CASE node.type \in {"NUMBER", "TIME"} -> SetField(m, i, "value", value)
           [] node.type \in {"COUNTER", "TIMER"} ->
                IF p.suffix = NoSuffix THEN Raise(m, "null_suffix")
                ELSE LET f == NumField(p.suffix)
                         ok == IF node.type = "COUNTER" THEN f \in CounterNums
                               ELSE f \in TimerNums
                     IN IF ok THEN SetField(m, i, f, value) ELSE m
           [] OTHER -> m

----------------------------------------------------------------------------
(* Element library *)

\* get_one_shot_state: the index of the entry of var_name, appended with
\* prev_state = false when absent; 0 (NULL) when the table is full.
get_one_shot_state(m, var_name) ==
    LET hits == {i \in 1..Len(m.os) : m.os[i].var_name = var_name}
    IN IF hits # {}
       THEN [m |-> m, idx |-> CHOOSE i \in hits : \A j \in hits : i <= j]
       ELSE IF Len(m.os) < MAX_ONE_SHOT_STATES
            THEN [m |-> [m EXCEPT !.os = Append(m.os,
                            [var_name |-> var_name, prev_state |-> FALSE])],
                  idx |-> Len(m.os) + 1]
            ELSE [m |-> m, idx |-> 0]

\* r_trig: [m, ret]; ret = condition && !prev, then prev := condition.
r_trig(m, var_name, condition) ==
    IF m.fault # "none" THEN [m |-> m, ret |-> FALSE]
    ELSE LET g == get_one_shot_state(m, var_name)
         IN IF g.idx = 0 THEN [m |-> g.m, ret |-> FALSE]
            ELSE [m |-> [g.m EXCEPT !.os[g.idx].prev_state = condition],
                  ret |-> condition /\ ~g.m.os[g.idx].prev_state]

no_contact(m, var_name) ==
    LET r == read_variable(m, var_name) IN [m |-> r.m, ret |-> ~r.ret]

nc_contact(m, var_name) ==
    LET r == read_variable(m, var_name) IN [m |-> r.m, ret |-> r.ret]

coil(m, var_name, condition) == write_variable(m, var_name, condition)

one_shot_positive_coil(m, var_name, condition) ==
    IF m.fault # "none" THEN m
    ELSE LET g == get_one_shot_state(m, var_name)
         IN IF g.idx = 0 THEN g.m
            ELSE write_variable([g.m EXCEPT !.os[g.idx].prev_state = condition],
                                var_name, condition /\ ~g.m.os[g.idx].prev_state)

set_coil(m, var_name, condition) ==
    IF condition THEN write_variable(m, var_name, TRUE) ELSE m

reset_coil(m, var_name, condition) ==
    IF condition THEN write_variable(m, var_name, FALSE) ELSE m

\* A math element that records the edge and writes in every scan whose
\* condition is true.
math_level(m, op, a_name, b_name, c_name, condition) ==
    LET t == r_trig(m, c_name, condition)
    IN IF ~condition THEN t.m
       ELSE LET a == read_numeric_variable(t.m, a_name)
                b == read_numeric_variable(a.m, b_name)
                v == CASE op = "add" -> a.ret + b.ret
                       [] op = "subtract" -> a.ret - b.ret
                       [] OTHER -> a.ret * b.ret
            IN write_numeric_variable(b.m, c_name, v)

\* add / subtract / multiply: gated by r_trig on the name of the output.
math(m, op, a_name, b_name, c_name, condition) ==
    LET t == r_trig(m, c_name, condition)
    IN IF ~t.ret THEN t.m
       ELSE LET a == read_numeric_variable(t.m, a_name)
                b == read_numeric_variable(a.m, b_name)
                v == CASE op = "add" -> a.ret + b.ret
                       [] op = "subtract" -> a.ret - b.ret
                       [] OTHER -> a.ret * b.ret
            IN write_numeric_variable(b.m, c_name, v)

\* divide: no write when fabs(b) < 1e-6.
divide(m, a_name, b_name, c_name, condition) ==
    LET t == r_trig(m, c_name, condition)
    IN IF ~t.ret THEN t.m
       ELSE LET a == read_numeric_variable(t.m, a_name)
                b == read_numeric_variable(a.m, b_name)
            IN IF b.ret = 0 THEN b.m
               ELSE write_numeric_variable(b.m, c_name,
                        IF (a.ret < 0) = (b.ret < 0)
                        THEN (IF a.ret < 0 THEN -a.ret ELSE a.ret)
                                \div (IF b.ret < 0 THEN -b.ret ELSE b.ret)
                        ELSE -((IF a.ret < 0 THEN -a.ret ELSE a.ret)
                                \div (IF b.ret < 0 THEN -b.ret ELSE b.ret)))

\* move: the condition is not read.
move(m, a_name, b_name, condition) ==
    LET a == read_numeric_variable(m, a_name)
    IN write_numeric_variable(a.m, b_name, a.ret)

compare(m, op, a_name, b_name) ==
    LET a == read_numeric_variable(m, a_name)
        b == read_numeric_variable(a.m, b_name)
    IN [m |-> b.m,
        ret |-> CASE op = "GreaterCompare" -> a.ret > b.ret
                  [] op = "LessCompare" -> a.ret < b.ret
                  [] op = "GreaterOrEqualCompare" -> a.ret >= b.ret
                  [] op = "LessOrEqualCompare" -> a.ret <= b.ret
                  [] op = "EqualCompare" -> a.ret = b.ret
                  [] OTHER -> a.ret # b.ret]

\* count_up / count_down: find_variable on the name as given (no suffix is
\* parsed), node->data read without a NULL check and cast to Counter.
\* The body of the if of count_up / count_down, once r_trig has returned true.
count_write(m, var_name, delta) ==
    LET i == find_variable(m.vars, var_name)
    IN IF i = 0 THEN Raise(m, "null_node")
       ELSE IF m.vars[i].type # "COUNTER" THEN Raise(m, "bad_cast")
       ELSE LET cv == m.vars[i].cv + delta
                m1 == SetField(m, i, "cv", cv)
                m2 == SetField(m1, i, "qu", cv >= m1.vars[i].pv)
            IN SetField(m2, i, "qd", cv <= 0)

count(m, var_name, condition, delta) ==
    LET t == r_trig(m, var_name, condition)
    IN IF ~t.ret THEN t.m ELSE count_write(t.m, var_name, delta)

count_up(m, var_name, condition) == count(m, var_name, condition, 1)
count_down(m, var_name, condition) == count(m, var_name, condition, -1)

\* get_timer_state: as get_one_shot_state, on timer_states.
get_timer_state(m, var_name) ==
    LET hits == {i \in 1..Len(m.ts) : m.ts[i].var_name = var_name}
    IN IF hits # {}
       THEN [m |-> m, idx |-> CHOOSE i \in hits : \A j \in hits : i <= j]
       ELSE IF Len(m.ts) < MAX_TIMER_STATES
            THEN [m |-> [m EXCEPT !.ts = Append(m.ts,
                            [var_name |-> var_name, start_time |-> 0,
                             running |-> FALSE])],
                  idx |-> Len(m.ts) + 1]
            ELSE [m |-> m, idx |-> 0]

SetTimer(m, i, in, et, q) ==
    SetField(SetField(SetField(m, i, "in", in), i, "et", et), i, "q", q)

\* The body with an off-delay that holds q until et exceeds pt.
timer_body_late(m, i, k, condition, on) ==
    LET t == m.vars[i]
        st == m.ts[k]
        start == (~st.running) /\ (IF on THEN condition /\ ~t.q ELSE ~condition /\ t.q)
        start_time == IF start THEN m.now ELSE st.start_time
        running == st.running \/ start
        raw == m.now - start_time
        et == IF raw > t.pt THEN t.pt ELSE raw
        stop == raw > t.pt
        St(mm, r) == [mm EXCEPT !.ts[k] = [st EXCEPT !.running = r]]
        Started(mm, r) == [mm EXCEPT !.ts[k] = [st EXCEPT !.running = r,
                                                   !.start_time = start_time]]
    IN IF t.pt <= 0
       THEN [m |-> St(SetTimer(m, i, condition, 0, IF on THEN FALSE ELSE condition), FALSE),
             ret |-> IF on THEN FALSE ELSE condition]
       ELSE IF on /\ ~condition
       THEN [m |-> St(SetTimer(m, i, condition, 0, FALSE), FALSE), ret |-> FALSE]
       ELSE IF ~on /\ condition
       THEN [m |-> St(SetTimer(m, i, condition, 0, TRUE), FALSE), ret |-> TRUE]
       ELSE IF running
       THEN LET q == IF on THEN et >= t.pt ELSE raw <= t.pt
            IN [m |-> Started(SetTimer(m, i, condition, et, q), ~stop), ret |-> q]
       ELSE IF on
       THEN [m |-> SetTimer(m, i, condition, t.pt, TRUE), ret |-> TRUE]
       ELSE [m |-> SetTimer(m, i, condition, IF ~t.q THEN 0 ELSE t.et, t.q),
             ret |-> t.q]

\* The body of timer_on and timer_off after the Timer and its state are found:
\* on = TRUE for timer_on.  [m, ret].
timer_body(m, i, k, condition, on) ==
    LET t == m.vars[i]
        st == m.ts[k]
        start == (~st.running) /\ (IF on THEN condition /\ ~t.q ELSE ~condition /\ t.q)
        start_time == IF start THEN m.now ELSE st.start_time
        running == st.running \/ start
        raw == m.now - start_time
        et == IF raw > t.pt THEN t.pt ELSE raw
        stop == raw > t.pt
        St(mm, r) == [mm EXCEPT !.ts[k] = [st EXCEPT !.running = r]]
        Started(mm, r) == [mm EXCEPT !.ts[k] = [st EXCEPT !.running = r,
                                                   !.start_time = start_time]]
    IN IF t.pt <= 0
       THEN [m |-> St(SetTimer(m, i, condition, 0, IF on THEN FALSE ELSE condition), FALSE),
             ret |-> IF on THEN FALSE ELSE condition]
       ELSE IF on /\ ~condition
       THEN [m |-> St(SetTimer(m, i, condition, 0, FALSE), FALSE), ret |-> FALSE]
       ELSE IF ~on /\ condition
       THEN [m |-> St(SetTimer(m, i, condition, 0, TRUE), FALSE), ret |-> TRUE]
       ELSE IF running
       THEN LET q == IF on THEN et >= t.pt ELSE et < t.pt
            IN [m |-> Started(SetTimer(m, i, condition, et, q), ~stop), ret |-> q]
       ELSE IF on
       THEN [m |-> SetTimer(m, i, condition, t.pt, TRUE), ret |-> TRUE]
       ELSE [m |-> SetTimer(m, i, condition, IF ~t.q THEN 0 ELSE t.et, t.q),
             ret |-> t.q]

\* timer_on / timer_off: find_variable on the name as given, node->data read
\* without a NULL check and cast to Timer; false when the state table is full.
timer(m, var_name, condition, on) ==
    LET i == find_variable(m.vars, var_name)
    IN IF m.fault # "none" THEN [m |-> m, ret |-> FALSE]
       ELSE IF i = 0 THEN [m |-> Raise(m, "null_node"), ret |-> FALSE]
       ELSE IF m.vars[i].type # "TIMER" THEN [m |-> Raise(m, "bad_cast"), ret |-> FALSE]
       ELSE LET g == get_timer_state(m, var_name)
            IN IF g.idx = 0 THEN [m |-> g.m, ret |-> FALSE]
               ELSE timer_body(g.m, i, g.idx, condition, on)

timer_on(m, var_name, condition) == timer(m, var_name, condition, TRUE)
timer_off(m, var_name, condition) == timer(m, var_name, condition, FALSE)

\* reset: gated by r_trig; node->type read without a NULL check.
reset(m, var_name, condition) ==
    LET t == r_trig(m, var_name, condition)
        i == find_variable(t.m.vars, var_name)
    IN IF ~t.ret THEN t.m
       ELSE IF i = 0 THEN Raise(t.m, "null_node")
       ELSE LET c == t.m.vars[i] IN
         CASE c.type = "COUNTER" ->
                LET cv == IF c.cd THEN c.pv ELSE IF c.cu THEN 0 ELSE c.cv
                    m1 == SetField(t.m, i, "cv", cv)
                IN IF c.cu \/ c.cd
                   THEN SetField(SetField(m1, i, "qu", cv >= c.pv), i, "qd", cv <= 0)
                   ELSE t.m
           [] c.type = "TIMER" ->
                LET g == get_timer_state(t.m, var_name)
                IN IF g.idx = 0 THEN g.m
                   ELSE [SetTimer(g.m, i, FALSE, 0, FALSE)
                            EXCEPT !.ts[g.idx].running = FALSE]
           [] OTHER -> t.m

----------------------------------------------------------------------------
(* Wire scan: process_node, process_nodes, process_coil *)

CoilTypes == {"Coil", "OneShotPositiveCoil", "SetCoil", "ResetCoil"}
CompareTypes == {"GreaterCompare", "LessCompare", "GreaterOrEqualCompare",
                 "LessOrEqualCompare", "EqualCompare", "NotEqualCompare"}

IsLastCoil(node) == node.Type = "LadderElement" /\ node.ElementType \in CoilTypes

\* process_coil: m after the coil operator has run.
process_coil(m, node, condition) ==
    LET a == node.ComboBoxValues
        e == node.ElementType
    IN IF node.Type # "LadderElement" \/ Len(a) < 1 THEN m
       ELSE CASE e = "Coil" -> coil(m, a[1], condition)
              [] e = "OneShotPositiveCoil" -> one_shot_positive_coil(m, a[1], condition)
              [] e = "SetCoil" -> set_coil(m, a[1], condition)
              [] e = "ResetCoil" -> reset_coil(m, a[1], condition)
              [] OTHER -> m

\* The LadderElement arm of process_node: [m, ret].  An element type that no
\* arm takes (a coil among them) returns the condition as it is.
process_element(m, node, condition) ==
    LET a == node.ComboBoxValues
        e == node.ElementType
        n == Len(a)
        And(r) == [m |-> r.m, ret |-> condition /\ r.ret]
        Act(mm) == [m |-> mm, ret |-> condition]
    IN CASE e = "NOContact" /\ n >= 1 -> And(no_contact(m, a[1]))
         [] e = "NCContact" /\ n >= 1 -> And(nc_contact(m, a[1]))
         [] e \in CompareTypes /\ n >= 2 -> And(compare(m, e, a[1], a[2]))
         [] e = "AddMath" /\ n >= 3 -> Act(math(m, "add", a[1], a[2], a[3], condition))
         [] e = "SubtractMath" /\ n >= 3 ->
                Act(math(m, "subtract", a[1], a[2], a[3], condition))
         [] e = "MultiplyMath" /\ n >= 3 ->
                Act(math(m, "multiply", a[1], a[2], a[3], condition))
         [] e = "DivideMath" /\ n >= 3 -> Act(divide(m, a[1], a[2], a[3], condition))
         [] e = "MoveMath" /\ n >= 2 -> Act(move(m, a[1], a[2], condition))
         [] e = "CountUp" /\ n >= 1 -> Act(count_up(m, a[1], condition))
         [] e = "CountDown" /\ n >= 1 -> Act(count_down(m, a[1], condition))
         [] e = "OnDelayTimer" /\ n >= 1 -> And(timer_on(m, a[1], condition))
         [] e = "OffDelayTimer" /\ n >= 1 -> timer_off(m, a[1], condition)
         [] e = "Reset" /\ n >= 1 -> Act(reset(m, a[1], condition))
         [] OTHER -> Act(m)

RECURSIVE process_node(_, _, _)
RECURSIVE process_nodes_loop(_, _, _, _, _)

\* The index of the trailing coil of a list, 0 when it has none.
LastCoil(nodes) ==
    IF Len(nodes) > 0 /\ IsLastCoil(nodes[Len(nodes)]) THEN Len(nodes) ELSE 0

\* What process_nodes hands back once its loop has ended with r.
NodesResult(r, last) ==
    [m |-> r.m, ret |-> r.ret, cond |-> r.ret, last_coil |-> last]

\* process_nodes: [m, ret, cond, last_coil]; last_coil is the index of the
\* trailing coil or 0.  An empty list returns false and leaves *condition.
process_nodes(m, nodes, condition) ==
    IF Len(nodes) = 0
    THEN [m |-> m, ret |-> FALSE, cond |-> condition, last_coil |-> 0]
    ELSE NodesResult(
            process_nodes_loop(m, nodes, 1,
                               IF LastCoil(nodes) # 0 THEN Len(nodes) - 1 ELSE Len(nodes),
                               condition),
            LastCoil(nodes))

\* A loop that leaves the nodes after a false condition unevaluated.
LoopStop(r, nodes, i, node_count) ==
    IF r.ret THEN process_nodes_loop(r.m, nodes, i + 1, node_count, r.ret) ELSE r

\* The loop of process_nodes goes on after node i has returned r.
LoopNext(r, nodes, i, node_count) ==
    process_nodes_loop(r.m, nodes, i + 1, node_count, r.ret)

\* The for loop of process_nodes from node i on.
process_nodes_loop(m, nodes, i, node_count, all_conditions_met) ==
    IF i > node_count THEN [m |-> m, ret |-> all_conditions_met]
    ELSE LoopNext(process_node(m, nodes[i], all_conditions_met), nodes, i, node_count)

\* process_node: [m, ret]; ret is also what *condition holds afterwards in
\* every caller.  The coils of a Branch run after both children.
process_node(m, node, condition) ==
    IF m.fault # "none" THEN [m |-> m, ret |-> FALSE]
    ELSE IF node.Type = "LadderElement" THEN process_element(m, node, condition)
    ELSE IF node.Type = "Branch"
    THEN LET r1 == process_nodes(m, node.Nodes1, TRUE)
             r2 == process_nodes(r1.m, node.Nodes2, TRUE)
             m1 == IF r1.last_coil # 0 /\ r1.cond
                   THEN process_coil(r2.m, node.Nodes1[r1.last_coil], r1.cond)
                   ELSE r2.m
             m2 == IF r2.last_coil # 0 /\ r2.cond
                   THEN process_coil(m1, node.Nodes2[r2.last_coil], r2.cond)
                   ELSE m1
         IN [m |-> m2, ret |-> condition /\ (r1.ret \/ r2.ret)]
    ELSE [m |-> m, ret |-> FALSE]

----------------------------------------------------------------------------
(* load_variables and device_init *)

Has(item, key) == key \in DOMAIN item

\* variables_list_free: nothing at all when nodes is NULL; else the list is
\* emptied and both sampler tasks are deleted.
variables_list_free(m) ==
    IF ~m.alloc THEN m
    ELSE [m EXCEPT !.vars = <<>>, !.alloc = FALSE, !.samplers = {}]

\* adc_sensor_init: both pins must be names of the device, the type "TM7711".
adc_sensor_init(m, sensor_type, pd_sck, dout) ==
    /\ find_pin_by_name(m.dev, pd_sck) # 0
    /\ find_pin_by_name(m.dev, dout) # 0
    /\ sensor_type = "TM7711"

VarType(type_str) ==
    CASE type_str \in {"Digital Input", "Digital Output",
                       "Analog Input", "Analog Output"} -> "DIGITAL_ANALOG_IO"
      [] type_str = "One Wire Input" -> "ONE_WIRE"
      [] type_str = "ADC Sensor" -> "ADC_SENSOR"
      [] type_str = "Boolean" -> "BOOLEAN"
      [] type_str = "Number" -> "NUMBER"
      [] type_str = "Counter" -> "COUNTER"
      [] type_str = "Timer" -> "TIMER"
      [] OTHER -> "TIME"

\* The keys whose item is dereferenced (->valuestring, ->valuedouble) when an
\* entry of the type is read; cJSON_IsTrue accepts a missing item.
Dereferenced(var_type) ==
    CASE var_type \in {"DIGITAL_ANALOG_IO", "ONE_WIRE"} -> {"Pin"}
      [] var_type = "ADC_SENSOR" ->
            {"Sensor_Type", "PD_SCK", "DOUT", "Map_Low", "Map_High", "Gain",
             "Sampling_Rate"}
      [] var_type \in {"NUMBER", "TIME"} -> {"Value"}
      [] var_type = "COUNTER" -> {"PV", "CV"}
      [] var_type = "TIMER" -> {"PT", "ET"}
      [] OTHER -> {}

IsTrue(var, key) == Has(var, key) /\ var[key] = TRUE

\* The node load_variables builds from one entry.
NewNode(var) ==
    LET t == VarType(var.Type)
    IN CASE t = "DIGITAL_ANALOG_IO" ->
              [type |-> t, name |-> var.Name, tstr |-> var.Type,
               pin_number |-> var.Pin]
         [] t = "ONE_WIRE" ->
              [type |-> t, name |-> var.Name, tstr |-> var.Type,
               pin_number |-> var.Pin, value |-> 0]
         [] t = "ADC_SENSOR" ->
              [type |-> t, name |-> var.Name, tstr |-> var.Type,
               sensor_type |-> var.Sensor_Type, pd_sck |-> var.PD_SCK,
               dout |-> var.DOUT, map_low |-> var.Map_Low,
               map_high |-> var.Map_High, gain |-> var.Gain,
               sampling_rate |-> var.Sampling_Rate, value |-> 0]
         [] t = "BOOLEAN" ->
              [type |-> t, name |-> var.Name, tstr |-> var.Type,
               value |-> IsTrue(var, "Value")]
         [] t \in {"NUMBER", "TIME"} ->
              [type |-> t, name |-> var.Name, tstr |-> var.Type,
               value |-> var.Value]
         [] t = "COUNTER" ->
              [type |-> t, name |-> var.Name, tstr |-> var.Type,
               pv |-> var.PV, cv |-> var.CV, cu |-> IsTrue(var, "CU"),
               cd |-> IsTrue(var, "CD"), qu |-> IsTrue(var, "QU"),
               qd |-> IsTrue(var, "QD")]
         [] OTHER ->
              [type |-> t, name |-> var.Name, tstr |-> var.Type,
               pt |-> var.PT, et |-> var.ET, in |-> IsTrue(var, "IN"),
               q |-> IsTrue(var, "Q")]

RECURSIVE load_entries(_, _, _, _)
\* The cJSON_ArrayForEach loop of load_variables from entry k on: [m, ok].
\* fail_at is the entry whose allocation fails (0: none does).
load_entries(m, variables, k, fail_at) ==
    IF k > Len(variables) THEN [m |-> m, ok |-> TRUE]
    ELSE LET var == variables[k] IN
      IF ~Has(var, "Type") \/ ~Has(var, "Name")
      THEN [m |-> Raise(m, "null_item"), ok |-> FALSE]
      ELSE IF k = fail_at THEN [m |-> variables_list_free(m), ok |-> FALSE]
      ELSE IF ~(Dereferenced(VarType(var.Type)) \subseteq DOMAIN var)
      THEN [m |-> Raise(m, "null_item"), ok |-> FALSE]
      ELSE IF VarType(var.Type) = "ADC_SENSOR"
              /\ ~adc_sensor_init(m, var.Sensor_Type, var.PD_SCK, var.DOUT)
      THEN load_entries(m, variables, k + 1, fail_at)
      ELSE load_entries([m EXCEPT !.vars = Append(m.vars, NewNode(var))],
                        variables, k + 1, fail_at)

\* load_variables: [m, ret].  variables is the array, <<>> also for a missing
\* item (cJSON_GetArraySize(NULL) = 0); calloc of 0 bytes returns NULL.
\* fail_at = Len + 1 fails the calloc of nodes; task_fail fails xTaskCreate.
load_variables(m, variables, fail_at, task_fail) ==
    LET m0 == variables_list_free(m)
        size == Len(variables)
        m1 == [m0 EXCEPT !.vars = <<>>, !.alloc = TRUE]
        r == load_entries(m1, variables, 1, fail_at)
        kinds == {r.m.vars[i].type : i \in 1..Len(r.m.vars)}
        want == {k \in {"ONE_WIRE", "ADC_SENSOR"} : k \in kinds}
    IN IF size = 0 \/ fail_at = size + 1
       THEN [m |-> [m0 EXCEPT !.vars = <<>>, !.alloc = FALSE], ret |-> FALSE]
       ELSE IF ~r.ok THEN [m |-> r.m, ret |-> FALSE]
       ELSE IF want # {} /\ task_fail
       THEN [m |-> variables_list_free(r.m), ret |-> FALSE]
       ELSE [m |-> [r.m EXCEPT !.samplers = want], ret |-> TRUE]

\* device_init: free_device, then the lists of the Device item; a missing or
\* NULL item leaves every list empty.  An item of parent_devices that is no
\* string leaves the pointer "NULL".
device_init(m, json) ==
    IF Has(json, "Device")
    THEN [m EXCEPT !.dev =
            [digital_inputs |-> json.Device.digital_inputs,
             digital_inputs_names |-> json.Device.digital_inputs_names,
             digital_outputs |-> json.Device.digital_outputs,
             digital_outputs_names |-> json.Device.digital_outputs_names,
             parent_devices |->
                 [i \in 1..Len(json.Device.parent_devices) |->
                    IF Has(json.Device.parent_devices[i], "string")
                    THEN json.Device.parent_devices[i].string ELSE "NULL"]]]
    ELSE [m EXCEPT !.dev = EmptyDevice]

\* The object read_variables_json builds for one node.  The keys of an item
\* are record fields: a space of a key is written "_", so the field
\* Sensor_Type is the key "Sensor Type" that load_variables looks up and the
\* field SensorType is the key "SensorType" that read_variables_json adds.
SnapshotOf(m, node) ==
    CASE node.type = "DIGITAL_ANALOG_IO" ->
           IF node.tstr \in {"Digital Input", "Digital Output"}
           THEN [Type |-> node.tstr, Name |-> node.name, Pin |-> node.pin_number,
                 Value |-> IF read_variable(m, node.name).ret THEN 1 ELSE 0]
           ELSE [Type |-> node.tstr, Name |-> node.name, Pin |-> node.pin_number,
                 Value |-> read_numeric_variable(m, node.name).ret]
      [] node.type = "ONE_WIRE" ->
           [Type |-> node.tstr, Name |-> node.name, Pin |-> node.pin_number,
            Value |-> node.value]
      [] node.type = "ADC_SENSOR" ->
           [Type |-> node.tstr, Name |-> node.name, SensorType |-> node.sensor_type,
            PD_SCK |-> node.pd_sck, DOUT |-> node.dout, MapLow |-> node.map_low,
            MapHigh |-> node.map_high, Gain |-> node.gain,
            SamplingRate |-> node.sampling_rate, Value |-> node.value]
      [] node.type = "COUNTER" ->
           [Type |-> node.tstr, Name |-> node.name, PV |-> node.pv, CV |-> node.cv,
            CU |-> node.cu, CD |-> node.cd, QU |-> node.qu, QD |-> node.qd]
      [] node.type = "TIMER" ->
           [Type |-> node.tstr, Name |-> node.name, PT |-> node.pt, ET |-> node.et,
            Q |-> node.q] @@ ("IN" :> node.in)
      [] OTHER ->
           [Type |-> node.tstr, Name |-> node.name, Value |-> node.value]

\* read_variables_json: the array of the objects of all nodes, as
\* cJSON_Parse gives it back from the string.
read_variables_json(m) == [i \in 1..Len(m.vars) |-> SnapshotOf(m, m.vars[i])]

----------------------------------------------------------------------------
(* The documents of the model *)

Element(e, args) == [Type |-> "LadderElement", ElementType |-> e, ComboBoxValues |-> args]

DeviceItem ==
    [digital_inputs |-> <<4>>, digital_inputs_names |-> <<S("in1")>>,
     digital_outputs |-> <<5>>, digital_outputs_names |-> <<S("out1")>>,
     parent_devices |-> <<>>]

Pins == {4, 5}

DigitalInput1 == [Type |-> "Digital Input", Name |-> S("di1"), Pin |-> S("in1")]
DigitalOutput1 == [Type |-> "Digital Output", Name |-> S("do1"), Pin |-> S("out1")]
Boolean1 == [Type |-> "Boolean", Name |-> S("b1"), Value |-> FALSE]
Counter1 ==
    [Type |-> "Counter", Name |-> S("c1"), PV |-> 1, CV |-> 0,
     CU |-> TRUE, CD |-> FALSE, QU |-> FALSE, QD |-> TRUE]

Timer1 ==
    [Type |-> "Timer", Name |-> S("tm1"), PT |-> 2, ET |-> 0, Q |-> FALSE]
        @@ ("IN" :> FALSE)
Number1 == [Type |-> "Number", Name |-> S("n1"), Value |-> 1]
Number2 == [Type |-> "Number", Name |-> S("n2"), Value |-> 2]
Zero(stem) == [Type |-> "Number", Name |-> S(stem), Value |-> 0]

\* A wire of the math document: the element e on a and b into c, behind the input.
MathWire(e, a, b, c) ==
    [Nodes |-> <<Element("NCContact", <<S("di1")>>),
                 Element(e, <<S(a), S(b), S(c)>>)>>]

Bool(stem) == [Type |-> "Boolean", Name |-> S(stem), Value |-> FALSE]

Branch(nodes1, nodes2) == [Type |-> "Branch", Nodes1 |-> nodes1, Nodes2 |-> nodes2]

\* The wires of the document F.
\* A series in which every kind of element follows a contact: a counter, an
\* element type the firmware does not know, a compare, an off-delay timer.
SeriesWire ==
    [Nodes |-> <<Element("NOContact", <<S("di1")>>),
                 Element("CountUp", <<S("c1")>>),
                 Element("Nop", <<S("b1")>>),
                 Element("GreaterCompare", <<S("n1"), S("n0")>>),
                 Element("OffDelayTimer", <<S("tm1")>>),
                 Element("Coil", <<S("do1")>>)>>]
\* A branch with an empty child, before a coil.
EmptyChildWire ==
    [Nodes |-> <<Branch(<<Element("NOContact", <<S("di1")>>)>>, <<>>),
                 Element("Coil", <<S("b1")>>)>>]
\* A branch whose children end in coils, one child being only a coil.
CoilChildWire ==
    [Nodes |-> <<Branch(<<Element("NCContact", <<S("di1")>>), Element("Coil", <<S("b2")>>)>>,
                        <<Element("SetCoil", <<S("b3")>>)>>)>>]
\* A coil in the middle of a series.
MiddleCoilWire ==
    [Nodes |-> <<Element("NOContact", <<S("di1")>>),
                 Element("SetCoil", <<S("b4")>>),
                 Element("NCContact", <<S("di1")>>),
                 Element("Coil", <<S("b5")>>)>>]

\* A Wires item that is a number.
NotAnArray == <<[number |-> 7]>>

\* The wire of the timer documents: the input, an on-delay timer, the output.
\* A rung that ends in a one-shot coil on b1.
OneShotWire ==
    [Nodes |-> <<Element("NCContact", <<S("di1")>>),
                 Element("OneShotPositiveCoil", <<S("b1")>>)>>]

\* A rung whose coil is the digital input it reads.
InputCoilWire ==
    [Nodes |-> <<Element("NOContact", <<S("di1")>>),
                 Element("Coil", <<S("di1")>>)>>]

\* A rung with an off-delay timer.
OffDelayWire ==
    [Nodes |-> <<Element("NCContact", <<S("di1")>>),
                 Element("OffDelayTimer", <<S("tm1")>>),
                 Element("Coil", <<S("do1")>>)>>]

TimerWire ==
    [Nodes |-> <<Element("NCContact", <<S("di1")>>),
                 Element("OnDelayTimer", <<S("tm1")>>),
                 Element("Coil", <<S("do1")>>)>>]

\* The wires of the counter documents: CountUp behind the input, Reset
\* behind a Boolean that nothing writes.
CountWire ==
    [Nodes |-> <<Element("NCContact", <<S("di1")>>), Element("CountUp", <<S("c1")>>)>>]
ResetWire ==
    [Nodes |-> <<Element("NCContact", <<S("b1")>>), Element("Reset", <<S("c1")>>)>>]

\* The item cJSON_Parse returns for the body token of a document.
\*   "A": two wires, a counter driven by an input and a coil on its flag;
\*   "B": one wire passing the input to the output;
\*   "W": Wires is a number, not an array;
\*   "U": a wire naming "zz", which Variables does not define;
\*   "K0": CountUp of a counter in one wire, Reset of it in another;
\*   "K1": as K0, the document carrying QU = true with CV 0 and PV 1;
\*   "M": four wires behind the input: n3 := n1 + n1, n1 := n1 - n1,
\*        n4 := n3 / n2, n5 := n1 * n2, with n1 = 1 and n2 = 2;
\*   "P": two parent MACs and an item that is no string in parent_devices;
\*        a Boolean, a Counter, a Number and a Timer; a wire from the input
\*        to the Boolean;
\*   "C1", "C2", "C3": objects a child device sends, key by key;
\*   "F": the wires SeriesWire, EmptyChildWire, CoilChildWire and
\*        MiddleCoilWire on an input, an output, five Booleans, a counter,
\*        a timer of 2 ms and the numbers 1 and 0;
\*   "T0": an on-delay timer of 2 ms between the input and the output;
\*   "T1": as T0, the document carrying Q = true for the timer;
\*   "T2": a timer of 1 ms, and a second wire that moves 2 to its ET.
Json(body) ==
    CASE body = "A" ->
           [Device |-> DeviceItem,
            Variables |-> <<DigitalInput1, DigitalOutput1, Counter1>>,
            Wires |-> <<[Nodes |-> <<Element("NOContact", <<S("di1")>>),
                                     Element("CountUp", <<S("c1")>>)>>],
                        [Nodes |-> <<Element("NCContact", <<SX("c1", ".QU")>>),
                                     Element("Coil", <<S("do1")>>)>>]>>]
      [] body = "B" ->
           [Device |-> DeviceItem,
            Variables |-> <<DigitalInput1, DigitalOutput1>>,
            Wires |-> <<[Nodes |-> <<Element("NOContact", <<S("di1")>>),
                                     Element("Coil", <<S("do1")>>)>>]>>]
      [] body = "W" ->
           [Device |-> DeviceItem, Variables |-> <<Boolean1>>, Wires |-> NotAnArray]
      [] body = "K0" ->
           [Device |-> DeviceItem,
            Variables |-> <<DigitalInput1, Boolean1, Counter1>>,
            Wires |-> <<CountWire, ResetWire>>]
      [] body = "K1" ->
           [Device |-> DeviceItem,
            Variables |-> <<DigitalInput1, Boolean1, [Counter1 EXCEPT !.QU = TRUE]>>,
            Wires |-> <<CountWire, ResetWire>>]
      [] body = "M" ->
           [Device |-> DeviceItem,
            Variables |-> <<DigitalInput1, Number1, Number2, Zero("n3"), Zero("n4"),
                            Zero("n5")>>,
            Wires |-> <<MathWire("AddMath", "n1", "n1", "n3"),
                        MathWire("SubtractMath", "n1", "n1", "n1"),
                        MathWire("DivideMath", "n3", "n2", "n4"),
                        MathWire("MultiplyMath", "n1", "n2", "n5")>>]
      [] body = "P" ->
           [Device |-> [DeviceItem EXCEPT !.parent_devices =
                           <<[string |-> "p1"], [number |-> 7], [string |-> "p2"]>>],
            Variables |-> <<DigitalInput1, Boolean1, Counter1, Number1, Timer1>>,
            Wires |-> <<[Nodes |-> <<Element("NCContact", <<S("di1")>>),
                                     Element("Coil", <<S("b1")>>)>>]>>]
      [] body = "C1" ->
           [Object |-> <<[key |-> S("b1"), bool |-> TRUE],
                         [key |-> S("n1"), number |-> 2],
                         [key |-> S("c1"), number |-> 2]>>]
      [] body = "C2" ->
           [Object |-> <<[key |-> S("b1"), number |-> 2],
                         [key |-> S("n1"), bool |-> TRUE],
                         [key |-> S("tm1"), bool |-> TRUE],
                         [key |-> S("zz"), number |-> 1]>>]
      [] body = "C3" ->
           [Object |-> <<[key |-> S("B1"), bool |-> TRUE]>>]
      [] body = "F" ->
           [Device |-> DeviceItem,
            Variables |-> <<DigitalInput1, DigitalOutput1, Boolean1, Bool("b2"), Bool("b3"),
                            Bool("b4"), Bool("b5"), Counter1, Timer1, Number1, Zero("n0")>>,
            Wires |-> <<SeriesWire, EmptyChildWire, CoilChildWire, MiddleCoilWire>>]
      [] body = "O" ->
           [Device |-> DeviceItem,
            Variables |-> <<DigitalInput1, Boolean1>>,
            Wires |-> <<OneShotWire>>]
      [] body = "I" ->
           [Device |-> DeviceItem,
            Variables |-> <<DigitalInput1, DigitalOutput1>>,
            Wires |-> <<InputCoilWire,
                        [Nodes |-> <<Element("NCContact", <<S("di1")>>),
                                     Element("Coil", <<S("do1")>>)>>]>>]
      [] body = "D0" ->
           [Device |-> DeviceItem,
            Variables |-> <<DigitalInput1, DigitalOutput1, Timer1>>,
            Wires |-> <<OffDelayWire>>]
      [] body = "D1" ->
           [Device |-> DeviceItem,
            Variables |-> <<DigitalInput1, DigitalOutput1,
                            [Timer1 EXCEPT !.PT = 1, !.Q = TRUE]>>,
            Wires |-> <<OffDelayWire>>]
      [] body = "T0" ->
           [Device |-> DeviceItem,
            Variables |-> <<DigitalInput1, DigitalOutput1, Timer1>>,
            Wires |-> <<TimerWire>>]
      [] body = "T1" ->
           [Device |-> DeviceItem,
            Variables |-> <<DigitalInput1, DigitalOutput1, [Timer1 EXCEPT !.Q = TRUE]>>,
            Wires |-> <<TimerWire>>]
      [] body = "T2" ->
           [Device |-> DeviceItem,
            Variables |-> <<DigitalInput1, DigitalOutput1, [Timer1 EXCEPT !.PT = 1],
                            Number2>>,
            Wires |-> <<TimerWire,
                        [Nodes |-> <<Element("MoveMath",
                                             <<S("n2"), SX("tm1", ".ET")>>)>>]>>]
      [] OTHER ->
           [Device |-> DeviceItem,
            Variables |-> <<Boolean1>>,
            Wires |-> <<[Nodes |-> <<Element("NCContact", <<S("zz")>>),
                                     Element("Coil", <<S("b1")>>)>>]>>]

Bodies == {"A", "B", "W", "U"}
TimerBodies == {"T0", "T1", "T2"}
CounterBodies == {"K0", "K1"}
ChildBodies == {"C1", "C2", "C3"}
AllBodies ==
    Bodies \cup TimerBodies \cup CounterBodies \cup {"M", "P", "F", "O", "I", "D0", "D1"} \cup ChildBodies

\* A document is its body and "}", here also followed by white space.
Text(body) == <<body, "}">>
Documents == {Text(b) : b \in Bodies} \cup {Text("A") \o <<"ws">>}

RECURSIVE SkipWhitespace(_)
SkipWhitespace(bytes) ==
    IF bytes # <<>> /\ Head(bytes) = "ws" THEN SkipWhitespace(Tail(bytes)) ELSE bytes

\* cJSON_Parse(large_buffer): white space is skipped, the first value is
\* parsed and what follows it is not looked at.  "NULL" when no value parses.
cJSON_Parse(bytes) ==
    LET t == SkipWhitespace(bytes)
    IN IF Len(t) >= 2 /\ t[1] \in AllBodies /\ t[2] = "}"
       THEN t[1] ELSE "NULL"

\* cJSON_IsArray(cJSON_GetObjectItem(json, "Wires"))
WiresIsArray(json) == Has(json, "Wires") /\ json.Wires # NotAnArray

VariablesOf(json) == IF Has(json, "Variables") THEN json.Variables ELSE <<>>

----------------------------------------------------------------------------
(* State of the firmware as the operators above take it *)

Machine ==
    [vars |-> variables_list.nodes, alloc |-> variables_list.allocated,
     samplers |-> samplers, dev |-> device, gpio_out |-> gpio_out,
     gpio_in |-> gpio_in, os |-> one_shot_states, ts |-> timer_states,
     now |-> now, fault |-> fault]

Store(m) ==
    /\ variables_list' = [nodes |-> m.vars, allocated |-> m.alloc]
    /\ samplers' = m.samplers
    /\ device' = m.dev
    /\ gpio_out' = m.gpio_out
    /\ one_shot_states' = m.os
    /\ timer_states' = m.ts
    /\ fault' = m.fault

MachineUnchanged ==
    UNCHANGED <<variables_list, samplers, device, gpio_out, one_shot_states,
                timer_states, fault>>

NoTimer == [created |-> FALSE, active |-> FALSE, left |-> 0]

\* The statics of a read handler of ble.c: loaded is whether the data
\* pointer is not NULL, data the bytes it points to, offset how many of
\* them were sent.
NoRead == [loaded |-> FALSE, data |-> <<>>, offset |-> 0]

\* ble.c after start: the default MTU, no read under way.
NoBle ==
    [ble_mtu |-> 23, configuration_read |-> NoRead, monitor_read |-> NoRead,
     one_wire_read |-> NoRead]

\* mqtt.c after boot: no broker, no app, no watchdog task; wake is the tick
\* at which the vTaskDelay of the watchdog ends, published the last message
\* sent on the connection_response topic, config_response the payloads sent
\* on the config_response topic, children the messages the last call of
\* send_variables_to_parents published.
NoMqtt ==
    [mqtt_connected |-> FALSE, app_connected_mqtt |-> FALSE, last_present_time |-> 0,
     connection_timeout_task |-> FALSE, wake |-> 0, published |-> "none", tick |-> 0,
     config_response |-> <<>>, children |-> <<>>]
\* cfg when no configure() call runs.  In a call, received is the text that
\* was parsed and ret, at pc "return", is how the call ended.
Idle ==
    [pc |-> "idle", json |-> "NULL", loaded_from_nvs |-> FALSE, i |-> 0,
     received |-> <<>>, ret |-> "none"]

Running == fault = "none"

\* The wires of the tasks that exist.
LiveWires == {wtasks[h].nodes : h \in DOMAIN wtasks}
Snapshot ==
    [vars |-> variables_list.nodes, dev |-> device, wires |-> LiveWires,
     gpio_out |-> gpio_out, blob |-> nvs_blob]
NoSnapshot ==
    [vars |-> <<>>, dev |-> EmptyDevice, wires |-> {},
     gpio_out |-> [p \in Pins |-> FALSE], blob |-> <<>>]

----------------------------------------------------------------------------
(* Bounds of the model *)

TickMs == 5000       \* the time one Tick lets pass
MaxBuffer == 3       \* bytes the ingest buffer may hold
MaxNum == 2          \* largest magnitude of a number of the store

NumbersBounded(m) ==
    \A i \in 1..Len(m.vars) :
        \A f \in DOMAIN m.vars[i] \cap (IF m.vars[i].type = "BOOLEAN" THEN {}
                                         ELSE {"value", "cv", "pv", "et", "pt"}) :
            m.vars[i][f] \in -MaxNum..MaxNum

----------------------------------------------------------------------------
(* A full scan of a wire, and the states no scan changes *)

\* process_block_task once process_nodes has returned r: the trailing coil.
BlockCoil(r, nodes) ==
    IF r.last_coil # 0 THEN process_coil(r.m, nodes[r.last_coil], r.cond) ELSE r.m

\* One iteration of the loop of process_block_task.
process_block(m, nodes) == BlockCoil(process_nodes(m, nodes, TRUE), nodes)

\* A scan of any wire changes nothing.
Stable == \A h \in DOMAIN wtasks : process_block(Machine, wtasks[h].nodes) = Machine

----------------------------------------------------------------------------
(* conf_task_manager.c *)

\* A delete_all_tasks that deletes no task.
delete_all_tasks_none(ws, ts) == ws

\* delete_all_tasks on the FreeRTOS tasks: vTaskDelete of every handle of tasks[].
delete_all_tasks(ws, ts) ==
    LET handles == {ts[k].handle : k \in 1..Len(ts)}
    IN [h \in DOMAIN ws \ handles |-> ws[h]]

\* A config_timeout_callback that leaves the buffer.
config_timeout_callback_keep(buffer) == buffer

\* config_timeout_callback on the buffer.
config_timeout_callback(buffer) == <<>>

\* A load_config_from_nvs that hands back another document than the blob.
load_config_from_nvs_other(blob) == Text("B")

\* load_config_from_nvs: the bytes of the blob as nvs_set_blob stored them.
load_config_from_nvs(blob) == blob

\* xTimerReset at the head of configure(): the timer, created when it is not.
xTimerReset(tm) == [created |-> TRUE, active |-> TRUE, left |-> CONFIG_TIMEOUT_MS]

\* configure(), from its entry to the save of the blob (or to its return, when
\* the buffer does not parse).  buffer and tm are the buffer and the timer at entry.
configure(data, loaded_from_nvs, buffer, tm) ==
    LET received == buffer \o data
        json == cJSON_Parse(received)
        restarted == xTimerReset(tm)
    IN /\ large_buffer' = received
       /\ IF json = "NULL"
          THEN /\ config_timeout_timer' = restarted
               /\ cfg' = Idle
               /\ UNCHANGED nvs_blob
          ELSE /\ config_timeout_timer' = [restarted EXCEPT !.active = FALSE]
               /\ nvs_blob' = IF loaded_from_nvs THEN nvs_blob ELSE received
               /\ cfg' = [pc |-> "delete_all_tasks", json |-> json,
                          loaded_from_nvs |-> loaded_from_nvs, i |-> 0,
                          received |-> received, ret |-> "none"]

IsPrefix(a, b) == Len(a) <= Len(b) /\ SubSeq(b, 1, Len(a)) = a

\* What the history records when configure() has received the bytes.
Entered(h, received) ==
    LET parsed == cJSON_Parse(received) # "NULL"
    IN [h EXCEPT
          !.since_chunk = 0,
          !.flushed = FALSE,
          !.pre = IF parsed THEN Snapshot ELSE NoSnapshot,
          !.reapply = parsed /\ received = h.applied /\ h.live /\ h.held /\ Stable,
          !.live = @ /\ ~parsed,
          !.held = @ \/ parsed,
          !.orig = IF parsed THEN [set |-> FALSE, vars |-> <<>>, wires |-> {}] ELSE @,
          !.roundtrip = FALSE,
          !.scanned = @ /\ ~parsed]

\* The BLE write handler or the MQTT event handler calls configure() with
\* the first k bytes of d, the document in transmission or a new document.
Receive(d, k) ==
    LET data == SubSeq(d, 1, k)
        e == Entered(hist, large_buffer \o data)
    IN /\ Running /\ cfg.pc = "idle"
       /\ Len(large_buffer) + k <= MaxBuffer
       /\ configure(data, FALSE, large_buffer, config_timeout_timer)
       /\ pending' = SubSeq(d, k + 1, Len(d))
       /\ hist' = IF pending = <<>>
                  THEN [e EXCEPT !.tx_doc = d,
                                 !.tx_clean = large_buffer = <<>>,
                                 !.tx_flushed = hist.flushed]
                  ELSE e
       /\ MachineUnchanged
       /\ UNCHANGED <<tasks, wtasks, gpio_in, mqtt, sensor_states, ble, now>>

\* A chunk of any length arrives.
Deliver ==
    \E d \in (IF pending = <<>> THEN Documents ELSE {pending}) :
        \E k \in 1..Len(d) : Receive(d, k)

\* A document arrives whole, in one chunk.
Submit ==
    /\ pending = <<>>
    /\ \E d \in Documents : Receive(d, Len(d))

\* The sender gives up the document it is transmitting.
Abandon ==
    /\ Running /\ cfg.pc = "idle" /\ pending # <<>>
    /\ pending' = <<>>
    /\ hist' = [hist EXCEPT !.tx_clean = FALSE]
    /\ MachineUnchanged
    /\ UNCHANGED <<large_buffer, config_timeout_timer, tasks, wtasks, cfg,
                   nvs_blob, gpio_in, mqtt, sensor_states, ble, now>>

\* configure(): the call of delete_all_tasks.
ConfDeleteAllTasks ==
    /\ Running /\ cfg.pc = "delete_all_tasks"
    /\ config_timeout_timer' = NoTimer
    /\ large_buffer' = <<>>
    /\ wtasks' = delete_all_tasks(wtasks, tasks)
    /\ tasks' = <<>>
    /\ cfg' = [cfg EXCEPT !.pc = "device_init"]
    /\ MachineUnchanged
    /\ UNCHANGED <<nvs_blob, gpio_in, mqtt, sensor_states, ble, now, pending, hist>>

\* configure(): device_init(Device).
ConfDeviceInit ==
    /\ Running /\ cfg.pc = "device_init"
    /\ Store(device_init(Machine, Json(cfg.json)))
    /\ cfg' = [cfg EXCEPT !.pc = "load_variables"]
    /\ UNCHANGED <<large_buffer, config_timeout_timer, tasks, wtasks, nvs_blob,
                   gpio_in, mqtt, sensor_states, ble, now, pending, hist>>

\* configure(): load_variables(Variables); its result is not looked at.
ConfLoadVariables ==
    /\ Running /\ cfg.pc = "load_variables"
    /\ Store(load_variables(Machine, VariablesOf(Json(cfg.json)), 0, FALSE).m)
    /\ cfg' = [cfg EXCEPT !.pc = "wires"]
    /\ hist' = [hist EXCEPT !.loaded = variables_list'.nodes,
                            !.seen = FALSE, !.pulses = 0]
    /\ UNCHANGED <<large_buffer, config_timeout_timer, tasks, wtasks, nvs_blob,
                   gpio_in, mqtt, sensor_states, ble, now, pending>>

\* configure(): the check of Wires, the check of the heap and the calloc of
\* tasks.  The free heap is whatever it is (heap_low); calloc of no wire may
\* return NULL, which the code takes for a failure.
ConfWires ==
    /\ Running /\ cfg.pc = "wires"
    /\ \E heap_low \in BOOLEAN :
         LET json == Json(cfg.json)
         IN IF ~WiresIsArray(json) \/ heap_low \/ Len(json.Wires) = 0
            THEN /\ cfg' = [cfg EXCEPT !.pc = "return", !.ret = "refused"]
                 /\ UNCHANGED tasks
            ELSE /\ tasks' = [k \in 1..Len(json.Wires) |-> [handle |-> 0]]
                 /\ cfg' = [cfg EXCEPT !.pc = "spawn", !.i = 1]
    /\ large_buffer' = <<>>
    /\ MachineUnchanged
    /\ UNCHANGED <<config_timeout_timer, wtasks, nvs_blob, gpio_in, mqtt, sensor_states, ble, now, pending,
                   hist>>

\* One iteration of the spawn loop of configure(): xTaskCreate, vTaskDelay.
ConfSpawn ==
    /\ Running /\ cfg.pc = "spawn" /\ cfg.i <= Len(tasks)
    /\ LET wire == Json(cfg.json).Wires[cfg.i]
           handle == CHOOSE h \in 1..(Cardinality(DOMAIN wtasks) + 1) : h \notin DOMAIN wtasks
       IN /\ tasks' = [tasks EXCEPT ![cfg.i].handle = handle]
          /\ wtasks' = IF Has(wire, "Nodes")
                       THEN wtasks @@ (handle :> [nodes |-> wire.Nodes, at |-> "delay"])
                       ELSE wtasks
    /\ cfg' = [cfg EXCEPT !.i = @ + 1]
    /\ MachineUnchanged
    /\ UNCHANGED <<large_buffer, config_timeout_timer, nvs_blob, gpio_in, mqtt, sensor_states, ble, now,
                   pending, hist>>

\* configure(): the clean-up after the spawn loop.
ConfFinish ==
    /\ Running /\ cfg.pc = "spawn" /\ cfg.i > Len(tasks)
    /\ cfg' = [cfg EXCEPT !.pc = "return", !.ret = "applied"]
    /\ large_buffer' = <<>>
    /\ MachineUnchanged
    /\ UNCHANGED <<config_timeout_timer, tasks, wtasks, nvs_blob, gpio_in, mqtt, sensor_states, ble, now,
                   pending, hist>>

\* configure() returns to its caller.
ConfReturn ==
    /\ Running /\ cfg.pc = "return"
    /\ cfg' = Idle
    /\ hist' = [hist EXCEPT
                  !.applied = IF cfg.ret = "applied" THEN cfg.received ELSE @,
                  !.live = cfg.ret = "applied",
                  !.reapply = @ /\ cfg.ret = "applied",
                  !.pre = IF hist.reapply /\ cfg.ret = "applied" THEN @ ELSE NoSnapshot,
                  !.tx_doc = IF pending = <<>> THEN <<>> ELSE @,
                  !.tx_clean = @ /\ pending # <<>>,
                  !.tx_flushed = @ /\ pending # <<>>,
                  !.orig = IF cfg.ret = "applied" /\ ~cfg.loaded_from_nvs
                           THEN [set |-> TRUE, vars |-> hist.loaded, wires |-> LiveWires]
                           ELSE @,
                  !.roundtrip = FALSE]
    /\ MachineUnchanged
    /\ UNCHANGED <<large_buffer, config_timeout_timer, tasks, wtasks, nvs_blob,
                   gpio_in, mqtt, sensor_states, ble, now, pending>>

BoundedStore(m) == NumbersBounded(m) /\ Store(m)

\* The wire task h runs one iteration of the loop of process_block_task.
ScanStep(h) ==
    /\ Running
    /\ BoundedStore(process_block(Machine, wtasks[h].nodes))
    /\ UNCHANGED <<large_buffer, config_timeout_timer, tasks, wtasks, cfg,
                   nvs_blob, gpio_in, mqtt, sensor_states, ble, now, pending, hist>>

\* TickMs pass on the FreeRTOS tick count.
Tick ==
    /\ Running
    /\ config_timeout_timer.active /\ config_timeout_timer.left > 0
    /\ config_timeout_timer' = [config_timeout_timer EXCEPT !.left = @ - TickMs]
    /\ hist' = [hist EXCEPT !.since_chunk = @ + TickMs]
    /\ MachineUnchanged
    /\ UNCHANGED <<large_buffer, tasks, wtasks, cfg, nvs_blob, gpio_in, mqtt, sensor_states, ble, now, pending>>

\* The timer service task runs config_timeout_callback of the expired timer.
ConfigTimeout ==
    /\ Running /\ cfg.pc = "idle"
    /\ config_timeout_timer.active /\ config_timeout_timer.left <= 0
    /\ large_buffer' = config_timeout_callback(large_buffer)
    /\ config_timeout_timer' = [config_timeout_timer EXCEPT !.active = FALSE]
    /\ hist' = [hist EXCEPT !.flushed = large_buffer # <<>>,
                            !.tx_clean = @ /\ pending = <<>>]
    /\ MachineUnchanged
    /\ UNCHANGED <<tasks, wtasks, cfg, nvs_blob, gpio_in, mqtt, sensor_states, ble, now, pending>>

InputPins == {4}

\* The level applied to an input pin changes.
SetInput(pin) ==
    /\ Running
    /\ gpio_in' = [gpio_in EXCEPT ![pin] = ~@]
    /\ hist' = [hist EXCEPT !.held = FALSE]
    /\ MachineUnchanged
    /\ UNCHANGED <<large_buffer, config_timeout_timer, tasks, wtasks, cfg,
                   nvs_blob, now, pending, mqtt, sensor_states, ble>>

\* pre: the firmware when the configure() call found a whole document;
\* applied: the text of the document applied last; live: the last call that
\* found a document applied it, after the last reset; tx_doc: the document
\* in transmission, tx_clean: it began on an empty buffer and nothing broke
\* it off, tx_flushed: it began right after a timeout had discarded bytes;
\* since_chunk: ms since the last chunk; flushed: the timeout discarded bytes
\* and no chunk came since; held: no input changed since the last call that
\* found a document was entered; reapply: that call found the document that
\* was live, in a firmware that had settled with its inputs held; loaded: the
\* nodes load_variables built in the last call that got there; orig: the
\* nodes and the wires of the apply that wrote the blob (set: the call that
\* wrote the blob last did apply its document); roundtrip: the call in
\* progress applies, after a reset, the blob an apply had written; scanned:
\* a wire of the program loaded last has been scanned; true_since: the time
\* of the first of the scans that have seen the input true without a scan
\* that saw it false in between (-1 when the last scan saw it false); seen:
\* the last scan of the CountUp wire saw its condition true; pulses: the
\* scans of that wire, since the store was loaded, that saw the condition
\* true after it had been false; cleared_by: what cleared app_connected_mqtt
\* last ("watchdog", "Disconnect", "broker"); requested: flips with every
\* message on the config_request topic; ticked: flips with every round of
\* the loop of app_main; heard: flips with every children_listener message,
\* child: the bytes of the last one.
NoOrig == [set |-> FALSE, vars |-> <<>>, wires |-> {}]

\* The one-wire pins of the device and the addresses the bus of the first
\* of them can answer with; no sensor is ever on the second.
OneWireInputs == <<4, 5>>
Addresses == <<"28A1", "28B2">>
Buses == {<<OneWireInputs[1], Addresses[j]>> : j \in 1..Len(Addresses)}

\* History of the one-wire searches, per (pin, address): run, the searches
\* in a row up to the last that found it; miss, the searches in a row up to
\* the last that did not (both counted up to MaxRun); held, it was in the
\* result of the last search that found it; result and before, the results
\* of the last search and of the one before.
MaxRun == 3

\* History of the reads of the characteristics: handler, the one read last;
\* data, the bytes loaded by the last read that found its data pointer NULL;
\* gathered, the bytes of the responses since then; ended, the last read
\* returned 0 with no bytes; failures counts the os_mbuf_append calls that
\* failed.
Handlers == {"configuration_read", "monitor_read", "one_wire_read"}

NoReads ==
    [handler |-> "none", data |-> <<>>, gathered |-> <<>>, ended |-> FALSE, failures |-> 0]

\* History of the one-shot rung: scanned, its wire has been scanned; cond, the
\* rung condition in the last scan; first, that scan was the first of a run
\* of scans of its task with a true condition; written, the value of b1
\* after that scan.
NoShot == [scanned |-> FALSE, cond |-> FALSE, first |-> FALSE, written |-> FALSE]

\* History of the off-delay rung, of the scans of the task that runs it:
\* scanned, it has scanned; time, in, pt, q, et, the time of its last scan,
\* the input of the timer in it and pt, q and et after it; since, the time of the first scan that saw the
\* input false after a scan that saw it true, -1 when the last scan saw it
\* true or no scan has seen it true.
NoOffDelay == [scanned |-> FALSE, time |-> 0, pt |-> 0, in |-> FALSE, q |-> FALSE, et |-> 0, since |-> -1,
               seen_true |-> FALSE]

\* History of the accesses to the store: by, the task that last walked to
\* an entry, entry, its place in the list; stale, an entry was read or written after free_variable had
\* freed its data.
NoAccess == [by |-> "none", entry |-> 0, stale |-> FALSE]

\* History of the heap and of the scheduler: freed[c], the calls of
\* cJSON_Delete on the wire copy c; deleted[h], the calls of vTaskDelete on
\* the task of handle h, by itself or by its handle; applies, the applies
\* that have begun.
NoHeap == [freed |-> <<>>, deleted |-> <<>>, applies |-> 0]

NoSearch ==
    [run |-> [b \in Buses |-> 0], miss |-> [b \in Buses |-> 0],
     held |-> {}, result |-> {}, before |-> {}]

NoHistory ==
    [pre |-> NoSnapshot, applied |-> <<>>, live |-> FALSE, tx_doc |-> <<>>,
     tx_clean |-> FALSE, tx_flushed |-> FALSE, since_chunk |-> 0,
     flushed |-> FALSE, reapply |-> FALSE, held |-> FALSE,
     loaded |-> <<>>, orig |-> NoOrig, roundtrip |-> FALSE,
     scanned |-> FALSE, true_since |-> -1, seen |-> FALSE, pulses |-> 0,
     cleared_by |-> "none", requested |-> FALSE, ticked |-> FALSE,
     heard |-> FALSE, child |-> <<>>, search |-> NoSearch, reads |-> NoReads,
     heap |-> NoHeap, shot |-> NoShot, toff |-> NoOffDelay, access |-> NoAccess]

\* Reset of the chip (after a CPU exception, or a power cycle while no
\* configure() call runs) and app_main up to its call of configure().
Reboot ==
    /\ fault # "none" \/ (cfg.pc = "idle" /\ large_buffer = <<>> /\ pending = <<>>)
    /\ variables_list' = [nodes |-> <<>>, allocated |-> FALSE]
    /\ samplers' = {}
    /\ device' = EmptyDevice
    /\ gpio_out' = [p \in Pins |-> FALSE]
    /\ one_shot_states' = <<>>
    /\ timer_states' = <<>>
    /\ fault' = "none"
    /\ now' = 0
    /\ tasks' = <<>>
    /\ wtasks' = <<>>
    /\ pending' = <<>>
    /\ IF nvs_blob = <<>>
       THEN /\ large_buffer' = <<>>
            /\ config_timeout_timer' = NoTimer
            /\ cfg' = Idle
            /\ hist' = [NoHistory EXCEPT !.applied = hist.applied]
            /\ UNCHANGED nvs_blob
       ELSE /\ configure(load_config_from_nvs(nvs_blob), TRUE, <<>>, NoTimer)
            /\ hist' = [Entered([NoHistory EXCEPT !.applied = hist.applied], nvs_blob)
                          EXCEPT !.pre = [NoSnapshot EXCEPT !.blob = nvs_blob],
                                 !.orig = hist.orig,
                                 !.roundtrip = hist.orig.set]
    /\ UNCHANGED <<gpio_in, mqtt, sensor_states, ble>>

----------------------------------------------------------------------------
(* The firmware with one caller of configure() at a time *)

Init ==
    /\ large_buffer = <<>>
    /\ config_timeout_timer = NoTimer
    /\ tasks = <<>>
    /\ wtasks = <<>>
    /\ cfg = Idle
    /\ nvs_blob = <<>>
    /\ variables_list = [nodes |-> <<>>, allocated |-> FALSE]
    /\ samplers = {}
    /\ device = EmptyDevice
    /\ gpio_out = [p \in Pins |-> FALSE]
    /\ gpio_in = [p \in Pins |-> FALSE]
    /\ one_shot_states = <<>>
    /\ timer_states = <<>>
    /\ now = 0
    /\ fault = "none"
    /\ pending = <<>>
    /\ mqtt = NoMqtt
    /\ sensor_states = <<>>
    /\ ble = NoBle
    /\ hist = NoHistory

\* Documents arrive whole while the inputs change and the chip may be reset.
Next ==
    \/ Submit
    \/ ConfDeleteAllTasks
    \/ ConfDeviceInit
    \/ ConfLoadVariables
    \/ ConfWires
    \/ ConfSpawn
    \/ ConfFinish
    \/ ConfReturn
    \/ \E h \in DOMAIN wtasks : ScanStep(h)
    \/ \E pin \in InputPins : SetInput(pin)
    \/ Reboot

Spec == Init /\ [][Next]_vars

\* Documents arrive in chunks, which the sender may stop sending, while the
\* timeout timer runs; the inputs are held.
NextChunks ==
    \/ Deliver
    \/ Abandon
    \/ Tick
    \/ ConfigTimeout
    \/ ConfDeleteAllTasks
    \/ ConfDeviceInit
    \/ ConfLoadVariables
    \/ ConfWires
    \/ ConfSpawn
    \/ ConfFinish
    \/ ConfReturn
    \/ \E h \in DOMAIN wtasks : ScanStep(h)

SpecChunks == Init /\ [][NextChunks]_vars

----------------------------------------------------------------------------
(* The firmware running the timer documents while time passes *)

MaxNow == 3          \* ms the clock may reach

\* A timer document arrives whole.
SubmitTimer ==
    /\ pending = <<>>
    /\ \E b \in TimerBodies : Receive(Text(b), 2)

\* esp_timer_get_time() has advanced by 1 ms.
Advance ==
    /\ Running /\ now < MaxNow
    /\ now' = now + 1
    /\ MachineUnchanged
    /\ UNCHANGED <<large_buffer, config_timeout_timer, tasks, wtasks, cfg,
                   nvs_blob, gpio_in, mqtt, sensor_states, ble, pending, hist>>

\* What the contact on di1 hands to the element after it in this scan.
RungInput == nc_contact(Machine, S("di1")).ret

\* The wire task h runs one iteration of the loop of process_block_task.
TimerScan(h) ==
    /\ Running
    /\ BoundedStore(process_block(Machine, wtasks[h].nodes))
    /\ hist' = [hist EXCEPT
                  !.scanned = TRUE,
                  !.true_since = IF wtasks[h].nodes # TimerWire.Nodes THEN @
                                 ELSE IF ~RungInput THEN -1
                                 ELSE IF @ = -1 THEN now ELSE @]
    /\ UNCHANGED <<large_buffer, config_timeout_timer, tasks, wtasks, cfg,
                   nvs_blob, gpio_in, mqtt, sensor_states, ble, now, pending>>

NextTimer ==
    \/ SubmitTimer
    \/ Advance
    \/ ConfDeleteAllTasks
    \/ ConfDeviceInit
    \/ ConfLoadVariables
    \/ ConfWires
    \/ ConfSpawn
    \/ ConfFinish
    \/ ConfReturn
    \/ \E h \in DOMAIN wtasks : TimerScan(h)
    \/ \E pin \in InputPins : SetInput(pin)

SpecTimer == Init /\ [][NextTimer]_vars

\* The node of the timer tm1, when the store holds it.
HasTimer == find_variable(variables_list.nodes, S("tm1")) # 0
TimerNode == variables_list.nodes[find_variable(variables_list.nodes, S("tm1"))]

\* C13: a Timer with pt > 0 driven by OnDelayTimer has q true, and the coil
\* after it is energised, only when the scans have seen its input true for at
\* least pt ms, whatever Q the document carries and across re-applies.
C13_OnDelayNotEarly ==
    (hist.scanned /\ HasTimer /\ cfg.json \in {"NULL", "T0", "T1"}
       /\ LiveWires = {TimerWire.Nodes})
        => /\ TimerNode.q
                => hist.true_since # -1 /\ now - hist.true_since >= TimerNode.pt
           /\ gpio_out[5]
                => hist.true_since # -1 /\ now - hist.true_since >= TimerNode.pt

\* C18: once an apply has been accepted, every Timer of the store with
\* pt > 0 and in = true has 0 <= et <= pt, whichever scans have run and
\* whatever the other elements have written to its fields.
C18_ElapsedWithinPreset ==
    (cfg.pc = "idle" /\ hist.live)
        => \A i \in 1..Len(variables_list.nodes) :
              (variables_list.nodes[i].type = "TIMER" /\ variables_list.nodes[i].pt > 0
                 /\ variables_list.nodes[i].in)
                  => /\ 0 <= variables_list.nodes[i].et
                     /\ variables_list.nodes[i].et <= variables_list.nodes[i].pt

----------------------------------------------------------------------------
(* The firmware running the counter documents *)

\* A counter document arrives whole at a firmware that has applied none.
SubmitCounter ==
    /\ pending = <<>> /\ hist.applied = <<>>
    /\ \E b \in CounterBodies : Receive(Text(b), 2)

\* The wire task h runs one iteration of the loop of process_block_task.
CounterScan(h) ==
    /\ Running
    /\ BoundedStore(process_block(Machine, wtasks[h].nodes))
    /\ hist' = IF wtasks[h].nodes # CountWire.Nodes THEN hist
               ELSE [hist EXCEPT
                       !.seen = RungInput,
                       !.pulses = IF RungInput /\ ~hist.seen THEN @ + 1 ELSE @]
    /\ UNCHANGED <<large_buffer, config_timeout_timer, tasks, wtasks, cfg,
                   nvs_blob, gpio_in, mqtt, sensor_states, ble, now, pending>>

NextCounter ==
    \/ SubmitCounter
    \/ ConfDeleteAllTasks
    \/ ConfDeviceInit
    \/ ConfLoadVariables
    \/ ConfWires
    \/ ConfSpawn
    \/ ConfFinish
    \/ ConfReturn
    \/ \E h \in DOMAIN wtasks : CounterScan(h)
    \/ \E pin \in InputPins : SetInput(pin)

SpecCounter == Init /\ [][NextCounter]_vars

HasCounter == find_variable(variables_list.nodes, S("c1")) # 0
CounterNode == variables_list.nodes[find_variable(variables_list.nodes, S("c1"))]

\* C14: with CountUp(c1) in one wire and Reset(c1) in another whose
\* condition stays false, under every interleaving of the two scans cv is
\* the number of false-to-true transitions the CountUp wire has seen, and
\* qu = (cv >= pv).
C14_OneCountPerPulse ==
    (nvs_blob = Text("K0") /\ HasCounter /\ cfg.pc \in {"spawn", "return", "idle"})
        => /\ CounterNode.cv = hist.pulses
           /\ CounterNode.qu = (CounterNode.cv >= CounterNode.pv)

\* C17: once an apply has been accepted, every Counter of the store has
\* qu = (cv >= pv) and qd = (cv <= 0), whatever QU and QD the document carries.
C17_CounterFlagsFollow ==
    ((cfg.pc = "return" /\ cfg.ret = "applied") \/ (cfg.pc = "idle" /\ hist.live))
        => \A i \in 1..Len(variables_list.nodes) :
              variables_list.nodes[i].type = "COUNTER"
                  => /\ variables_list.nodes[i].qu
                          = (variables_list.nodes[i].cv >= variables_list.nodes[i].pv)
                     /\ variables_list.nodes[i].qd = (variables_list.nodes[i].cv <= 0)

----------------------------------------------------------------------------
(* The wire tasks preempted inside an element *)

\* The counter document arrives whole.
SubmitAgain ==
    /\ pending = <<>>
    /\ Receive(Text("K0"), 2)

\* The task of the CountUp wire leaves vTaskDelay, evaluates the contact and
\* runs count_up up to the return of r_trig; it is preempted there when
\* r_trig has returned true.
ElementBegin(h) ==
    /\ Running
    /\ wtasks[h].nodes = CountWire.Nodes /\ wtasks[h].at = "delay"
    /\ Store(r_trig(Machine, S("c1"), RungInput).m)
    /\ wtasks' = [wtasks EXCEPT
                    ![h].at = IF r_trig(Machine, S("c1"), RungInput).ret
                              THEN "count_up" ELSE "delay"]
    /\ UNCHANGED <<large_buffer, config_timeout_timer, tasks, cfg, nvs_blob,
                   gpio_in, mqtt, sensor_states, ble, now, pending, hist>>

\* The task runs again: count_up writes the counter, the task reaches vTaskDelay.
ElementEnd(h) ==
    /\ Running
    /\ wtasks[h].at = "count_up"
    /\ BoundedStore(count_write(Machine, S("c1"), 1))
    /\ wtasks' = [wtasks EXCEPT ![h].at = "delay"]
    /\ UNCHANGED <<large_buffer, config_timeout_timer, tasks, cfg, nvs_blob,
                   gpio_in, mqtt, sensor_states, ble, now, pending, hist>>

\* The task of another wire runs one iteration of its loop.
WholeScan(h) ==
    /\ wtasks[h].nodes # CountWire.Nodes
    /\ ScanStep(h)

NextTeardown ==
    \/ SubmitAgain
    \/ ConfDeleteAllTasks
    \/ ConfDeviceInit
    \/ ConfLoadVariables
    \/ ConfWires
    \/ ConfSpawn
    \/ ConfFinish
    \/ ConfReturn
    \/ \E h \in DOMAIN wtasks : ElementBegin(h)
    \/ \E h \in DOMAIN wtasks : ElementEnd(h)
    \/ \E h \in DOMAIN wtasks : WholeScan(h)
    \/ \E pin \in InputPins : SetInput(pin)

SpecTeardown == Init /\ [][NextTeardown]_vars

\* C19: no step takes a wire task away while it is inside an element, its
\* edge memory updated and its write to the store still to come.
C19_NoTaskStoppedMidElement ==
    [][\A h \in DOMAIN wtasks : wtasks[h].at # "delay" => h \in DOMAIN wtasks']_vars

----------------------------------------------------------------------------
(* The MQTT app-liveness watchdog *)

PRESENT_TIMEOUT_MS == 10000
WATCHDOG_PERIOD_MS == 1000
TickStepMs == 500    \* the time one step of the tick count lets pass
MaxTick == 13000     \* ms the tick count may reach

Messages == {"Connect", "Present", "Disconnect"}

MqttOnly ==
    /\ MachineUnchanged
    /\ UNCHANGED <<large_buffer, config_timeout_timer, tasks, wtasks, cfg,
                   nvs_blob, gpio_in, now, pending, sensor_states, ble>>

\* mqtt_event_handler, MQTT_EVENT_CONNECTED.
MqttEventConnected ==
    /\ ~mqtt.mqtt_connected
    /\ mqtt' = [mqtt EXCEPT !.mqtt_connected = TRUE]
    /\ UNCHANGED hist
    /\ MqttOnly

\* mqtt_event_handler, MQTT_EVENT_DISCONNECTED.
MqttEventDisconnected ==
    /\ mqtt.mqtt_connected
    /\ mqtt' = [mqtt EXCEPT !.mqtt_connected = FALSE, !.app_connected_mqtt = FALSE,
                            !.connection_timeout_task = FALSE]
    /\ hist' = [hist EXCEPT !.cleared_by = IF mqtt.app_connected_mqtt THEN "broker" ELSE @]
    /\ MqttOnly

\* mqtt_event_handler, MQTT_EVENT_DATA on the connection_request topic;
\* created is whether xTaskCreate returns pdPASS.
ConnectionRequest(data, created) ==
    /\ mqtt.mqtt_connected
    /\ mqtt' =
         IF data = "Present" THEN [mqtt EXCEPT !.last_present_time = mqtt.tick]
         ELSE IF mqtt.app_connected_mqtt /\ data = "Disconnect"
         THEN [mqtt EXCEPT !.app_connected_mqtt = FALSE, !.connection_timeout_task = FALSE]
         ELSE IF ~mqtt.app_connected_mqtt /\ data = "Connect"
         THEN [mqtt EXCEPT !.app_connected_mqtt = TRUE,
                           !.last_present_time = mqtt.tick,
                           !.published = "Connected",
                           !.connection_timeout_task = created,
                           !.wake = mqtt.tick]
         ELSE mqtt
    /\ hist' = [hist EXCEPT !.cleared_by = IF mqtt.app_connected_mqtt /\ data = "Disconnect"
                                           THEN "Disconnect" ELSE @]
    /\ MqttOnly

\* mqtt_publish on the connection_response topic: sent when the broker is connected.
mqtt_publish(mq, message) ==
    IF mq.mqtt_connected THEN [mq EXCEPT !.published = message] ELSE mq

\* connection_timeout_task: one iteration of its loop, when its delay has ended.
ConnectionTimeoutTask ==
    /\ mqtt.connection_timeout_task /\ mqtt.wake <= mqtt.tick
    /\ IF mqtt.app_connected_mqtt
          /\ mqtt.tick - mqtt.last_present_time > PRESENT_TIMEOUT_MS
       THEN /\ mqtt' = [mqtt_publish([mqtt EXCEPT !.app_connected_mqtt = FALSE],
                                     "Disconnected")
                          EXCEPT !.connection_timeout_task = FALSE]
            /\ hist' = [hist EXCEPT !.cleared_by = "watchdog"]
       ELSE /\ mqtt' = [mqtt EXCEPT !.wake = mqtt.tick + WATCHDOG_PERIOD_MS]
            /\ UNCHANGED hist
    /\ MqttOnly

\* TickStepMs pass on the tick count; a task whose delay has ended runs first.
TickCount ==
    /\ mqtt.tick + TickStepMs <= MaxTick
    /\ mqtt.connection_timeout_task => mqtt.tick < mqtt.wake
    /\ mqtt' = [mqtt EXCEPT !.tick = @ + TickStepMs]
    /\ UNCHANGED hist
    /\ MqttOnly

NextWatchdog ==
    \/ MqttEventConnected
    \/ MqttEventDisconnected
    \/ \E data \in Messages, created \in BOOLEAN : ConnectionRequest(data, created)
    \/ ConnectionTimeoutTask
    \/ TickCount

\* The scheduler runs the watchdog task when its delay has ended (it has the
\* priority of the wire tasks, which sleep 10 ms per scan), and time passes.
SpecWatchdog ==
    Init /\ [][NextWatchdog]_vars /\ WF_vars(ConnectionTimeoutTask) /\ WF_vars(TickCount)

Silence == mqtt.tick - mqtt.last_present_time

\* C20: the app is never connected with the last "Present" more than 10 s
\* and one watchdog period ago, and after 10 s of silence app_connected_mqtt
\* becomes false unless a "Present" arrives first; when the watchdog has
\* cleared it "Disconnected" was published; and the watchdog clears it only
\* after more than 10 s of silence.
C20_WatchdogDisconnects ==
    /\ [](mqtt.app_connected_mqtt => Silence <= PRESENT_TIMEOUT_MS + WATCHDOG_PERIOD_MS)
    /\ []((~mqtt.app_connected_mqtt /\ hist.cleared_by = "watchdog")
            => mqtt.published = "Disconnected")
    /\ [][(mqtt.app_connected_mqtt /\ ~mqtt'.app_connected_mqtt
             /\ hist'.cleared_by = "watchdog") => Silence > PRESENT_TIMEOUT_MS]_vars
    /\ (mqtt.app_connected_mqtt /\ Silence >= PRESENT_TIMEOUT_MS
           /\ mqtt.tick + WATCHDOG_PERIOD_MS <= MaxTick)
            ~> (~mqtt.app_connected_mqtt \/ Silence < PRESENT_TIMEOUT_MS)

\* C21: when "Disconnect" has cleared app_connected_mqtt, the flag is false
\* and "Disconnected" is the message published last on connection_response.
C21_DisconnectIsAnnounced ==
    [][(mqtt.app_connected_mqtt /\ hist'.cleared_by = "Disconnect"
          /\ hist' # hist)
         => (~mqtt'.app_connected_mqtt /\ mqtt'.published = "Disconnected")]_vars

----------------------------------------------------------------------------
(* The MQTT requests for the stored configuration *)

MaxResponses == 2    \* messages the config_response topic may carry

\* mqtt_event_handler, MQTT_EVENT_DATA on the config_request topic; the
\* payload is not read.
ConfigRequest ==
    /\ mqtt.mqtt_connected
    /\ Len(mqtt.config_response) < MaxResponses
    /\ mqtt' = IF mqtt.app_connected_mqtt /\ nvs_blob # <<>>
               THEN [mqtt EXCEPT !.config_response =
                                    Append(@, load_config_from_nvs(nvs_blob))]
               ELSE mqtt
    /\ hist' = [hist EXCEPT !.requested = ~@]
    /\ MqttOnly

\* The document B arrives whole at a firmware that has applied none.
SubmitOnce ==
    /\ pending = <<>> /\ hist.applied = <<>>
    /\ Receive(Text("B"), 2)

NextRequests ==
    \/ SubmitOnce
    \/ ConfDeleteAllTasks
    \/ ConfDeviceInit
    \/ ConfLoadVariables
    \/ ConfWires
    \/ ConfSpawn
    \/ ConfFinish
    \/ ConfReturn
    \/ MqttEventConnected
    \/ MqttEventDisconnected
    \/ \E data \in Messages, created \in BOOLEAN : ConnectionRequest(data, created)
    \/ ConfigRequest

SpecRequests == Init /\ [][NextRequests]_vars

\* C22: a message on the config_request topic, whether or not an app is
\* marked connected, publishes the persisted blob on config_response
\* whenever a blob exists.
C22_RequestRepublishesBlob ==
    [][(hist'.requested # hist.requested /\ nvs_blob # <<>>)
         => mqtt'.config_response = Append(mqtt.config_response, nvs_blob)]_vars

----------------------------------------------------------------------------
(* The scan of a node list *)

\* The document F arrives whole at a firmware that has applied none.
SubmitSeries ==
    /\ pending = <<>> /\ hist.applied = <<>>
    /\ Receive(Text("F"), 2)

NextSeries ==
    \/ SubmitSeries
    \/ Advance
    \/ ConfDeleteAllTasks
    \/ ConfDeviceInit
    \/ ConfLoadVariables
    \/ ConfWires
    \/ ConfSpawn
    \/ ConfFinish
    \/ ConfReturn
    \/ \E h \in DOMAIN wtasks : ScanStep(h)
    \/ \E pin \in InputPins : SetInput(pin)

SpecSeries == Init /\ [][NextSeries]_vars

\* The element types whose result is ANDed into the running condition.
AndTypes == {"NOContact", "NCContact", "OnDelayTimer"} \cup CompareTypes

\* The running condition after an element, from the one before it and the
\* result of the element's own operator.
Folded(node, cond, result) ==
    IF node.ElementType \in AndTypes THEN cond /\ result
    ELSE IF node.ElementType = "OffDelayTimer" THEN result
    ELSE cond

\* The operator of an element run once on m with the running condition:
\* [m, ret], ret being a result only for the types that have one.
OwnResult(m, node, cond) ==
    LET a == node.ComboBoxValues
        e == node.ElementType
    IN CASE e = "NOContact" -> no_contact(m, a[1])
         [] e = "NCContact" -> nc_contact(m, a[1])
         [] e \in CompareTypes -> compare(m, e, a[1], a[2])
         [] e = "OnDelayTimer" -> timer_on(m, a[1], cond)
         [] e = "OffDelayTimer" -> timer_off(m, a[1], cond)
         [] e = "CountUp" -> [m |-> count_up(m, a[1], cond), ret |-> TRUE]
         [] OTHER -> [m |-> m, ret |-> TRUE]

\* The left-to-right fold over the first k nodes of a list of elements,
\* started from true: every node once, in order, whatever the condition.
RECURSIVE FoldTo(_, _, _)
FoldTo(m, nodes, k) ==
    IF k = 0 THEN [m |-> m, ret |-> TRUE]
    ELSE LET p == FoldTo(m, nodes, k - 1)
             o == OwnResult(p.m, nodes[k], p.ret)
         IN [m |-> o.m, ret |-> Folded(nodes[k], p.ret, o.ret)]

\* The nodes of a list without its trailing coil.
Series(nodes) == IF LastCoil(nodes) # 0 THEN Len(nodes) - 1 ELSE Len(nodes)

Flat(nodes) == \A k \in 1..Len(nodes) : nodes[k].Type = "LadderElement"

FinalOf(m, nodes) == FoldTo(m, nodes, Series(nodes))

\* C29: a Branch node hands back the outer condition ANDed with (final
\* condition of Nodes1) OR (final condition of Nodes2), each child started
\* from true, an empty child ending in its starting value true; stated for
\* the branches that stand first in a wire.
C29_BranchIsOrOfChildren ==
    \A h \in DOMAIN wtasks : \A c \in BOOLEAN :
        (Running /\ wtasks[h].nodes[1].Type = "Branch")
          => LET node == wtasks[h].nodes[1]
                 f1 == FinalOf(Machine, node.Nodes1)
                 f2 == FinalOf(f1.m, node.Nodes2)
             IN process_node(Machine, node, c).ret = (c /\ (f1.ret \/ f2.ret))

\* C30: a coil element that is not the last node of its list is handed to
\* its coil operator with the running condition, as a trailing coil is.
C30_MiddleCoilIsWritten ==
    \A h \in DOMAIN wtasks :
        (Running /\ Flat(wtasks[h].nodes))
          => \A k \in 1..(Len(wtasks[h].nodes) - 1) :
                IsLastCoil(wtasks[h].nodes[k])
                  => LET p == process_nodes_loop(Machine, wtasks[h].nodes, 1, k - 1, TRUE)
                     IN process_node(p.m, wtasks[h].nodes[k], p.ret).m
                          = process_coil(p.m, wtasks[h].nodes[k], p.ret)

----------------------------------------------------------------------------
(* The wire copies and the task handles across applies *)

MaxApplies == 2

\* The Wires of the document applied here: a wire with Nodes, an object
\* without Nodes, an item that is no object.
WireItems == <<[Nodes |-> <<Element("NOContact", <<S("di1")>>)>>],
               [Name |-> "w"],
               [number |-> 7]>>

IsObject(item) == ~Has(item, "number")

Bump(counts, k) == [counts EXCEPT ![k] = @ + 1]

\* The loop of delete_all_tasks over tasks[]: the heap history after
\* vTaskDelete of every handle that is not NULL and cJSON_Delete of every
\* wire_copy that is not NULL, from entry k on.
RECURSIVE DeleteEntries(_, _, _)
DeleteEntries(heap, ts, k) ==
    IF k > Len(ts) THEN heap
    ELSE LET h1 == IF ts[k].handle # 0
                   THEN [heap EXCEPT !.deleted = Bump(@, ts[k].handle)] ELSE heap
             h2 == IF ts[k].wire_copy # 0
                   THEN [h1 EXCEPT !.freed = Bump(@, ts[k].wire_copy)] ELSE h1
         IN DeleteEntries(h2, ts, k + 1)

\* configure() on a whole document, from delete_all_tasks to the calloc of
\* tasks[].
WiresBegin ==
    /\ Running /\ cfg.pc = "idle" /\ hist.heap.applies < MaxApplies
    /\ hist' = [hist EXCEPT !.heap = [DeleteEntries(@, tasks, 1) EXCEPT !.applies = @ + 1]]
    /\ wtasks' = delete_all_tasks(wtasks, tasks)
    /\ tasks' = [k \in 1..Len(WireItems) |-> [handle |-> 0, wire_copy |-> 0]]
    /\ cfg' = [cfg EXCEPT !.pc = "spawn", !.i = 1]
    /\ MachineUnchanged
    /\ UNCHANGED <<large_buffer, config_timeout_timer, nvs_blob, gpio_in, mqtt,
                   sensor_states, ble, now, pending>>

\* One iteration of the spawn loop: the wire is skipped when it is no
\* object, when cJSON_Duplicate fails and when the stack is low (the copy
\* is freed); the copy is stored in tasks[i] before xTaskCreate and freed
\* and cleared when xTaskCreate fails.
WiresSpawn ==
    /\ Running /\ cfg.pc = "spawn" /\ cfg.i <= Len(tasks)
    /\ \E outcome \in {"created", "create_failed", "low_stack", "no_copy"} :
          LET wire == WireItems[cfg.i]
              copy == Len(hist.heap.freed) + 1
              handle == Len(hist.heap.deleted) + 1
              copied == [hist.heap EXCEPT !.freed = Append(@, 0)]
          IN IF ~IsObject(wire) \/ outcome = "no_copy"
             THEN UNCHANGED <<tasks, wtasks, hist>>
             ELSE IF outcome = "low_stack"
             THEN /\ hist' = [hist EXCEPT !.heap = [copied EXCEPT !.freed = Bump(@, copy)]]
                  /\ UNCHANGED <<tasks, wtasks>>
             ELSE IF outcome = "create_failed"
             THEN /\ hist' = [hist EXCEPT !.heap = [copied EXCEPT !.freed = Bump(@, copy)]]
                  /\ UNCHANGED <<tasks, wtasks>>
             ELSE /\ hist' = [hist EXCEPT !.heap = [copied EXCEPT !.deleted = Append(@, 0)]]
                  /\ tasks' = [tasks EXCEPT ![cfg.i] = [handle |-> handle, wire_copy |-> copy]]
                  /\ wtasks' = wtasks @@ (handle :> [wire |-> wire, wire_copy |-> copy,
                                                     at |-> "start"])
    /\ cfg' = [cfg EXCEPT !.i = @ + 1]
    /\ MachineUnchanged
    /\ UNCHANGED <<large_buffer, config_timeout_timer, nvs_blob, gpio_in, mqtt,
                   sensor_states, ble, now, pending>>

\* configure() after the spawn loop.
WiresFinish ==
    /\ Running /\ cfg.pc = "spawn" /\ cfg.i > Len(tasks)
    /\ cfg' = Idle
    /\ MachineUnchanged
    /\ UNCHANGED <<large_buffer, config_timeout_timer, tasks, wtasks, nvs_blob, gpio_in,
                   mqtt, sensor_states, ble, now, pending, hist>>

\* process_block_task up to its loop: a task whose wire has no Nodes array
\* frees the wire and deletes itself.
TaskStart(h) ==
    /\ Running /\ wtasks[h].at = "start"
    /\ IF Has(wtasks[h].wire, "Nodes")
       THEN /\ wtasks' = [wtasks EXCEPT ![h].at = "delay"]
            /\ UNCHANGED hist
       ELSE /\ wtasks' = [g \in DOMAIN wtasks \ {h} |-> wtasks[g]]
            /\ hist' = [hist EXCEPT !.heap.freed = Bump(@, wtasks[h].wire_copy),
                                    !.heap.deleted = Bump(@, h)]
    /\ MachineUnchanged
    /\ UNCHANGED <<large_buffer, config_timeout_timer, tasks, cfg, nvs_blob, gpio_in,
                   mqtt, sensor_states, ble, now, pending>>

NextWires ==
    \/ WiresBegin
    \/ WiresSpawn
    \/ WiresFinish
    \/ \E h \in DOMAIN wtasks : TaskStart(h)

SpecWires == Init /\ [][NextWires]_vars

\* C31: no wire copy is freed twice and no task is deleted twice: a copy
\* that a task has freed, or a task that has deleted itself, is not freed or
\* deleted again by delete_all_tasks.
C31_FreedOnceDeletedOnce ==
    /\ \A c \in 1..Len(hist.heap.freed) : hist.heap.freed[c] <= 1
    /\ \A h \in 1..Len(hist.heap.deleted) : hist.heap.deleted[h] <= 1

----------------------------------------------------------------------------
(* The state tables under interleaved wire tasks *)

\* In this section a table is the array with its counter: states[k] is slot
\* k - 1 of the C array as far as it has been written or counted, count is
\* one_shot_count or timer_state_count. Names are numbered; 0 is the empty
\* name of a slot that is still zero.
Capacity(table) == IF table = "one_shot" THEN MAX_ONE_SHOT_STATES ELSE MAX_TIMER_STATES

ZeroState(table) ==
    IF table = "one_shot" THEN [var_name |-> 0, prev_state |-> FALSE]
    ELSE [var_name |-> 0, start_time |-> 0, running |-> FALSE]

EmptyTable == [states |-> <<>>, count |-> 0]

\* The operators of the three wires, in the order of their scan: the first
\* wire uses all names but the last of each table, the two others use the
\* last name of each table.
Fill(table) == [k \in 1..(Capacity(table) - 1) |-> <<table, k>>]
Last == <<<<"one_shot", MAX_ONE_SHOT_STATES>>, <<"timer", MAX_TIMER_STATES>>>>
TableWires == <<Fill("one_shot") \o Fill("timer"), Last, Last>>

\* The wires whose tasks are interleaved step by step; the task of the
\* first wire is created first, it has scanned once when the others start
\* and takes each operator in one step.
Stepped == {2, 3}

TableOf(table) == IF table = "one_shot" THEN one_shot_states ELSE timer_states

\* The slot k (from 1) of a table after a write of e: the array has no
\* bound check, a write behind the array lands in the memory after it.
WriteSlot(t, table, k, e) ==
    LET padded == [j \in 1..(IF k > Len(t.states) THEN k ELSE Len(t.states)) |->
                      IF j <= Len(t.states) THEN t.states[j] ELSE ZeroState(table)]
    IN [t EXCEPT !.states = [padded EXCEPT ![k] = e]]

SetTable(table, t) ==
    IF table = "one_shot"
    THEN one_shot_states' = t /\ UNCHANGED timer_states
    ELSE timer_states' = t /\ UNCHANGED one_shot_states

TablesFrame ==
    UNCHANGED <<large_buffer, config_timeout_timer, tasks, cfg, nvs_blob, variables_list,
                samplers, device, gpio_out, gpio_in, now, fault, pending, mqtt,
                sensor_states, ble, hist>>

Found(t, name) == \E k \in 1..t.count : k <= Len(t.states) /\ t.states[k].var_name = name

\* get_one_shot_state or get_timer_state run without interruption.
Register(t, table, name) ==
    IF Found(t, name) \/ t.count >= Capacity(table) THEN t
    ELSE [WriteSlot(t, table, t.count + 1, [ZeroState(table) EXCEPT !.var_name = name])
            EXCEPT !.count = @ + 1]

\* One operator of the first wire.
FillStep(h) ==
    LET w == wtasks[h]
        table == w.wire[w.i][1]
    IN /\ h \notin Stepped
       /\ w.at = "search"
       /\ SetTable(table, Register(TableOf(table), table, w.wire[w.i][2]))
       /\ wtasks' = [wtasks EXCEPT ![h].at = "return"]
       /\ TablesFrame

\* A wire task at one operator of its wire: get_one_shot_state or
\* get_timer_state in four steps, the search for the name, the test of the
\* counter, the write of the slot at the counter, the increment.
Search(h) ==
    LET w == wtasks[h]
        table == w.wire[w.i][1]
        name == w.wire[w.i][2]
        t == TableOf(table)
    IN /\ h \in Stepped
       /\ wtasks[1].scanned
       /\ w.at = "search"
       /\ wtasks' = [wtasks EXCEPT ![h].at = IF Found(t, name) THEN "return" ELSE "test"]
       /\ UNCHANGED <<one_shot_states, timer_states>>
       /\ TablesFrame

Test(h) ==
    LET w == wtasks[h]
        table == w.wire[w.i][1]
        t == TableOf(table)
    IN /\ w.at = "test"
       /\ wtasks' = [wtasks EXCEPT ![h].at = IF t.count < Capacity(table)
                                             THEN "write" ELSE "return"]
       /\ UNCHANGED <<one_shot_states, timer_states>>
       /\ TablesFrame

WriteState(h) ==
    LET w == wtasks[h]
        table == w.wire[w.i][1]
        name == w.wire[w.i][2]
        t == TableOf(table)
    IN /\ w.at = "write"
       /\ SetTable(table, WriteSlot(t, table, t.count + 1,
                                    [ZeroState(table) EXCEPT !.var_name = name]))
       /\ wtasks' = [wtasks EXCEPT ![h].at = "increment"]
       /\ TablesFrame

Increment(h) ==
    LET w == wtasks[h]
        table == w.wire[w.i][1]
        t == TableOf(table)
    IN /\ w.at = "increment"
       /\ SetTable(table, [t EXCEPT !.count = @ + 1])
       /\ wtasks' = [wtasks EXCEPT ![h].at = "return"]
       /\ TablesFrame

\* The task goes on to the next operator of its wire, from the last one to
\* the first one of the next scan.
Return(h) ==
    LET w == wtasks[h]
    IN /\ w.at = "return"
       /\ wtasks' = [wtasks EXCEPT ![h].at = "search",
                                   ![h].i = IF w.i = Len(w.wire) THEN 1 ELSE w.i + 1,
                                   ![h].scanned = @ \/ w.i = Len(w.wire)]
       /\ UNCHANGED <<one_shot_states, timer_states>>
       /\ TablesFrame

InitTables ==
    /\ large_buffer = <<>>
    /\ config_timeout_timer = NoTimer
    /\ tasks = [h \in 1..Len(TableWires) |-> [handle |-> h]]
    /\ wtasks = [h \in 1..Len(TableWires) |-> [wire |-> TableWires[h], i |-> 1, at |-> "search",
                                                scanned |-> FALSE]]
    /\ cfg = Idle
    /\ nvs_blob = <<>>
    /\ variables_list = [nodes |-> <<>>, allocated |-> FALSE]
    /\ samplers = {}
    /\ device = EmptyDevice
    /\ gpio_out = [p \in Pins |-> FALSE]
    /\ gpio_in = [p \in Pins |-> FALSE]
    /\ one_shot_states = EmptyTable
    /\ timer_states = EmptyTable
    /\ now = 0
    /\ fault = "none"
    /\ pending = <<>>
    /\ mqtt = NoMqtt
    /\ sensor_states = <<>>
    /\ ble = NoBle
    /\ hist = NoHistory

NextTables ==
    \/ \E h \in DOMAIN wtasks : FillStep(h)
    \/ \E h \in DOMAIN wtasks : Search(h)
    \/ \E h \in DOMAIN wtasks : Test(h)
    \/ \E h \in DOMAIN wtasks : WriteState(h)
    \/ \E h \in DOMAIN wtasks : Increment(h)
    \/ \E h \in DOMAIN wtasks : Return(h)

SpecTables == InitTables /\ [][NextTables]_vars

NoTwoFor(t) ==
    \A j, k \in 1..t.count :
        (j < k /\ k <= Len(t.states) /\ t.states[j].var_name # 0)
            => t.states[j].var_name # t.states[k].var_name

\* C32: under every interleaving of the wire tasks the edge-state table
\* holds at most 64 entries and no two entries for one name, and the
\* timer-state table holds at most 32 entries.
C32_TablesBoundedAndUnique ==
    /\ one_shot_states.count <= MAX_ONE_SHOT_STATES
    /\ Len(one_shot_states.states) <= MAX_ONE_SHOT_STATES
    /\ NoTwoFor(one_shot_states)
    /\ timer_states.count <= MAX_TIMER_STATES
    /\ Len(timer_states.states) <= MAX_TIMER_STATES

----------------------------------------------------------------------------
(* The one-shot coil *)

\* The document O arrives whole, also when it has been applied before.
SubmitOneShot ==
    /\ pending = <<>>
    /\ Receive(Text("O"), 2)

\* The wire task h runs one iteration of the loop of process_block_task; a
\* task is at "delay" until its first iteration.
OneShotScan(h) ==
    LET prev == wtasks[h].at # "delay" /\ hist.shot.cond
        k == find_variable(variables_list.nodes, S("b1"))
    IN /\ Running
       /\ k # 0
       /\ BoundedStore(process_block(Machine, wtasks[h].nodes))
       /\ wtasks' = [wtasks EXCEPT ![h].at = "loop"]
       /\ hist' = [hist EXCEPT !.shot = [scanned |-> TRUE, cond |-> RungInput,
                                         first |-> RungInput /\ ~prev,
                                         written |-> variables_list'.nodes[k].value]]
       /\ UNCHANGED <<large_buffer, config_timeout_timer, tasks, cfg,
                      nvs_blob, gpio_in, mqtt, sensor_states, ble, now, pending>>

NextOneShot ==
    \/ SubmitOneShot
    \/ ConfDeleteAllTasks
    \/ ConfDeviceInit
    \/ ConfLoadVariables
    \/ ConfWires
    \/ ConfSpawn
    \/ ConfFinish
    \/ ConfReturn
    \/ \E h \in DOMAIN wtasks : OneShotScan(h)
    \/ \E pin \in InputPins : SetInput(pin)

SpecOneShot == Init /\ [][NextOneShot]_vars

\* C33: after every scan of a wire that ends in OneShotPositiveCoil(b1), b1
\* is true exactly when the scan was the first of a run of scans of that wire
\* with a true rung condition, the first scan of the wire counting as the
\* first of its run.
C33_TrueInFirstScanOfRun ==
    hist.shot.scanned => (hist.shot.written <=> hist.shot.first)

----------------------------------------------------------------------------
(* Writes to variables that are inputs *)

\* The document I arrives whole.
SubmitWrites ==
    /\ pending = <<>>
    /\ Receive(Text("I"), 2)

NextWrites ==
    \/ SubmitWrites
    \/ Advance
    \/ ConfDeleteAllTasks
    \/ ConfDeviceInit
    \/ ConfLoadVariables
    \/ ConfWires
    \/ ConfSpawn
    \/ ConfFinish
    \/ ConfReturn
    \/ \E h \in DOMAIN wtasks : ScanStep(h)
    \/ \E pin \in InputPins : SetInput(pin)

SpecWrites == Init /\ [][NextWrites]_vars

\* C34: no write through a variable whose role is an input reaches the
\* driver: the level the driver holds for an input pin is the one it had at
\* reset.
C34_InputsAreNotDriven ==
    \A pin \in InputPins : ~gpio_out[pin]

----------------------------------------------------------------------------
(* The off-delay timer *)

OffDelayBodies == {"D0", "D1"}

\* A document with an off-delay rung arrives whole at a firmware that has
\* applied none.
SubmitOffDelay ==
    /\ pending = <<>> /\ hist.applied = <<>>
    /\ \E b \in OffDelayBodies : Receive(Text(b), 2)

\* The wire task h runs one iteration of the loop of process_block_task; a
\* task is at "delay" until its first iteration.
OffDelayScan(h) ==
    LET old == IF wtasks[h].at = "delay" THEN NoOffDelay ELSE hist.toff
        k == find_variable(variables_list.nodes, S("tm1"))
    IN /\ Running
       /\ k # 0
       /\ BoundedStore(process_block(Machine, wtasks[h].nodes))
       /\ wtasks' = [wtasks EXCEPT ![h].at = "loop"]
       /\ hist' = [hist EXCEPT !.toff =
                     [scanned |-> TRUE, time |-> now, in |-> RungInput,
                      pt |-> variables_list'.nodes[k].pt,
                      q |-> variables_list'.nodes[k].q,
                      et |-> variables_list'.nodes[k].et,
                      seen_true |-> old.seen_true \/ RungInput,
                      since |-> IF RungInput \/ ~old.seen_true THEN -1
                                ELSE IF old.since = -1 THEN now ELSE old.since]]
       /\ UNCHANGED <<large_buffer, config_timeout_timer, tasks, cfg,
                      nvs_blob, gpio_in, mqtt, sensor_states, ble, now, pending>>

OffDelayScans == \E h \in DOMAIN wtasks : OffDelayScan(h)

NextOffDelay ==
    \/ SubmitOffDelay
    \/ Advance
    \/ ConfDeleteAllTasks
    \/ ConfDeviceInit
    \/ ConfLoadVariables
    \/ ConfWires
    \/ ConfSpawn
    \/ ConfFinish
    \/ ConfReturn
    \/ OffDelayScans
    \/ \E pin \in InputPins : SetInput(pin)

\* A scan of the rung would change the store.
OffDelayDue ==
    /\ Running /\ DOMAIN wtasks # {} /\ hist.toff.scanned
    /\ \E h \in DOMAIN wtasks :
          process_block(Machine, wtasks[h].nodes).vars # variables_list.nodes

\* The wire task is scheduled again after the delay of each iteration: weak
\* fairness of the scans that change the store, with their enabling
\* condition written out.
ScansContinue == []<>~OffDelayDue \/ []<><<OffDelayScans>>_vars

\* Scans continue and time passes.
SpecOffDelay == Init /\ [][NextOffDelay]_vars /\ WF_vars(Advance) /\ ScansContinue

\* What the last scan of the off-delay rung left, given what it saw.
OffDelayFrame ==
    hist.toff.scanned =>
        /\ hist.toff.in => (hist.toff.q /\ hist.toff.et = 0)
        /\ (hist.toff.since # -1 /\ hist.toff.time - hist.toff.since < hist.toff.pt)
               => hist.toff.q
        /\ (hist.toff.since # -1 /\ hist.toff.time - hist.toff.since >= hist.toff.pt)
               => ~hist.toff.q

\* The last scan was less than pt after the first scan that saw the input
\* false, and pt after that scan is a time the clock reaches.
OffDelayPending ==
    /\ hist.toff.scanned /\ hist.toff.since # -1 /\ hist.toff.q
    /\ hist.toff.since + hist.toff.pt <= MaxNow

\* C35: a scan of an off-delay timer with pt > 0 that sees the input true
\* leaves q true and et = 0; a scan less than pt ms after the first scan
\* that saw the input false leaves q true, a scan pt ms or more after it
\* leaves q false; and while scans continue and the input stays false, q
\* becomes false.
C35_OffDelay ==
    /\ []OffDelayFrame
    /\ OffDelayPending ~> (~hist.toff.q \/ hist.toff.in)

\* The scan 2 ms after the first one that saw the input false has left q
\* false, with pt = 2.
C35_Witness ==
    /\ hist.toff.scanned /\ ~hist.toff.in /\ hist.toff.since # -1
    /\ hist.toff.pt = 2 /\ hist.toff.time - hist.toff.since = 2 /\ hist.toff.et = 2
    /\ ~hist.toff.q /\ ~gpio_out[5]

----------------------------------------------------------------------------
(* The store while an apply frees and rebuilds it *)

\* In this section an entry of the store is its type and the block its data
\* pointer points to, a number of hist.heap.freed.
EntryTypes == <<"ONE_WIRE", "ADC_SENSOR", "TIME">>

\* The tasks that walk the store beside the task that runs configure(): the
\* samplers while their handles are set, the clock task, the loop of
\* app_main.
Walkers == {"one_wire_read_task", "adc_sensor_read_task", "clock_task", "app_main"}

RebuildFrame ==
    UNCHANGED <<large_buffer, config_timeout_timer, tasks, wtasks, nvs_blob, device,
                gpio_out, gpio_in, one_shot_states, timer_states, now, fault, pending,
                mqtt, sensor_states, ble>>

\* configure() on a whole document, up to the call of variables_list_free.
RebuildBegin ==
    /\ Running /\ cfg.pc = "idle" /\ hist.heap.applies < MaxApplies
    /\ cfg' = [cfg EXCEPT !.pc = "free", !.i = 1]
    /\ hist' = [hist EXCEPT !.heap.applies = @ + 1]
    /\ UNCHANGED <<variables_list, samplers>>
    /\ RebuildFrame

\* variables_list_free: free_variable on one entry.
FreeVariable ==
    /\ Running /\ cfg.pc = "free" /\ cfg.i <= Len(variables_list.nodes)
    /\ hist' = [hist EXCEPT !.heap.freed = Bump(@, variables_list.nodes[cfg.i].data)]
    /\ cfg' = [cfg EXCEPT !.i = @ + 1]
    /\ UNCHANGED <<variables_list, samplers>>
    /\ RebuildFrame

\* variables_list_free: free(nodes), nodes = NULL, count = 0.
FreeNodes ==
    /\ Running /\ cfg.pc = "free" /\ cfg.i > Len(variables_list.nodes)
    /\ variables_list' = [nodes |-> <<>>, allocated |-> FALSE]
    /\ cfg' = [cfg EXCEPT !.pc = "samplers"]
    /\ UNCHANGED <<samplers, hist>>
    /\ RebuildFrame

\* variables_list_free: vTaskDelete of the sampler tasks.
DeleteSamplers ==
    /\ Running /\ cfg.pc = "samplers"
    /\ samplers' = {}
    /\ cfg' = [cfg EXCEPT !.pc = "load", !.i = 1]
    /\ UNCHANGED <<variables_list, hist>>
    /\ RebuildFrame

\* load_variables: one entry is built and added.
LoadVariable ==
    /\ Running /\ cfg.pc = "load" /\ cfg.i <= Len(EntryTypes)
    /\ variables_list' =
          [nodes |-> Append(variables_list.nodes,
                            [type |-> EntryTypes[cfg.i], data |-> Len(hist.heap.freed) + 1]),
           allocated |-> TRUE]
    /\ hist' = [hist EXCEPT !.heap.freed = Append(@, 0)]
    /\ cfg' = [cfg EXCEPT !.i = @ + 1]
    /\ UNCHANGED samplers
    /\ RebuildFrame

\* load_variables: the sampler tasks are created; configure() returns.
LoadEnd ==
    /\ Running /\ cfg.pc = "load" /\ cfg.i > Len(EntryTypes)
    /\ samplers' = {"ONE_WIRE", "ADC_SENSOR"}
    /\ cfg' = Idle
    /\ UNCHANGED <<variables_list, hist>>
    /\ RebuildFrame

\* A task other than the one in configure() walks to entry i < count and
\* reads or writes its data: the sampler its sensor, the clock task the Time
\* variable, app_main every entry.
Walk(t, i) ==
    /\ Running
    /\ t = "one_wire_read_task" => "ONE_WIRE" \in samplers
    /\ t = "adc_sensor_read_task" => "ADC_SENSOR" \in samplers
    /\ i <= Len(variables_list.nodes)
    /\ t = "one_wire_read_task" => variables_list.nodes[i].type = "ONE_WIRE"
    /\ t = "adc_sensor_read_task" => variables_list.nodes[i].type = "ADC_SENSOR"
    /\ t = "clock_task" => variables_list.nodes[i].type = "TIME"
    /\ hist' = [hist EXCEPT !.access =
                  [by |-> t, entry |-> i, stale |-> hist.heap.freed[variables_list.nodes[i].data] > 0]]
    /\ UNCHANGED <<variables_list, samplers, cfg>>
    /\ RebuildFrame

NextRebuild ==
    \/ RebuildBegin
    \/ FreeVariable
    \/ FreeNodes
    \/ DeleteSamplers
    \/ LoadVariable
    \/ LoadEnd
    \/ \E t \in Walkers : \E i \in 1..Len(EntryTypes) : Walk(t, i)

SpecRebuild == Init /\ [][NextRebuild]_vars

\* C36: no task reads or writes an entry of the store whose data the apply
\* in progress has already freed.
C36_NoAccessToFreedEntry == ~hist.access.stale

----------------------------------------------------------------------------
(* The callers of configure() *)

\* The tasks that call configure(): the NimBLE host task from
\* configuration_write, the MQTT client task from its event handler.  In this
\* section cfg holds the position and the data of the call of each.
Callers == {"ble", "mqtt"}

Chunks == {<<"A">>, <<"}">>, <<"A", "}">>}

NoCallOf == [pc |-> "idle", data |-> <<>>]

InitCallers ==
    /\ large_buffer = <<>>
    /\ config_timeout_timer = NoTimer
    /\ tasks = <<>>
    /\ wtasks = <<>>
    /\ cfg = [c \in Callers |-> NoCallOf]
    /\ nvs_blob = <<>>
    /\ variables_list = [nodes |-> <<>>, allocated |-> FALSE]
    /\ samplers = {}
    /\ device = EmptyDevice
    /\ gpio_out = [p \in Pins |-> FALSE]
    /\ gpio_in = [p \in Pins |-> FALSE]
    /\ one_shot_states = <<>>
    /\ timer_states = <<>>
    /\ now = 0
    /\ fault = "none"
    /\ pending = <<>>
    /\ mqtt = NoMqtt
    /\ sensor_states = <<>>
    /\ ble = NoBle
    /\ hist = NoHistory

CallersFrame ==
    UNCHANGED <<wtasks, nvs_blob, variables_list, samplers, device, gpio_out, gpio_in,
                one_shot_states, timer_states, now, fault, pending, mqtt, sensor_states,
                ble, hist>>

\* configuration_write or the handler of the config topic calls configure():
\* the timer is created and reset.
ConfigureEnter(c) ==
    /\ cfg[c].pc = "idle"
    /\ \E data \in Chunks :
          /\ Len(large_buffer) + Len(data) <= MaxBuffer
          /\ cfg' = [cfg EXCEPT ![c] = [pc |-> "realloc", data |-> data]]
    /\ config_timeout_timer' = xTimerReset(config_timeout_timer)
    /\ UNCHANGED <<large_buffer, tasks>>
    /\ CallersFrame

\* realloc, memcpy at total_received, total_received += data_len.
ConfigureAppend(c) ==
    /\ cfg[c].pc = "realloc"
    /\ Len(large_buffer) + Len(cfg[c].data) <= MaxBuffer
    /\ large_buffer' = large_buffer \o cfg[c].data
    /\ cfg' = [cfg EXCEPT ![c].pc = "parse"]
    /\ UNCHANGED <<config_timeout_timer, tasks>>
    /\ CallersFrame

\* cJSON_Parse(large_buffer): the call returns when the buffer does not parse.
ConfigureParse(c) ==
    /\ cfg[c].pc = "parse"
    /\ cfg' = [cfg EXCEPT ![c] = IF cJSON_Parse(large_buffer) = "NULL" THEN NoCallOf
                                  ELSE [@ EXCEPT !.pc = "delete_all_tasks"]]
    /\ UNCHANGED <<large_buffer, config_timeout_timer, tasks>>
    /\ CallersFrame

\* delete_all_tasks: the timer is deleted, the buffer and tasks[] are freed.
ConfigureDeleteAllTasks(c) ==
    /\ cfg[c].pc = "delete_all_tasks"
    /\ config_timeout_timer' = NoTimer
    /\ large_buffer' = <<>>
    /\ tasks' = <<>>
    /\ cfg' = [cfg EXCEPT ![c].pc = "spawn"]
    /\ CallersFrame

\* The calloc of tasks[] and the spawn loop, free(large_buffer) and
\* total_received = 0; configure() returns.
ConfigureSpawn(c) ==
    /\ cfg[c].pc = "spawn"
    /\ tasks' = <<[handle |-> 1]>>
    /\ large_buffer' = <<>>
    /\ cfg' = [cfg EXCEPT ![c] = NoCallOf]
    /\ UNCHANGED config_timeout_timer
    /\ CallersFrame

NextCallers ==
    \/ \E c \in Callers : ConfigureEnter(c)
    \/ \E c \in Callers : ConfigureAppend(c)
    \/ \E c \in Callers : ConfigureParse(c)
    \/ \E c \in Callers : ConfigureDeleteAllTasks(c)
    \/ \E c \in Callers : ConfigureSpawn(c)

SpecCallers == InitCallers /\ [][NextCallers]_vars

\* C37: at most one call of configure() is executing at any time.
C37_OneCallOfConfigure ==
    \A c, d \in Callers : c # d => (cfg[c].pc = "idle" \/ cfg[d].pc = "idle")

\* C38: when no call of configure() is executing and the buffer holds bytes,
\* the timeout timer is armed.
C38_BufferedBytesHaveTimer ==
    ((\A c \in Callers : cfg[c].pc = "idle") /\ large_buffer # <<>>)
        => config_timeout_timer.active

----------------------------------------------------------------------------
(* The watchdog task and its handle *)

MaxWatchdogs == 3    \* watchdog tasks xTaskCreate may create in a run

WatchdogIds == 1..MaxWatchdogs

\* A task that does not exist; pc is the statement a task is at ("loop" the
\* test at the head of its loop, "publish" the mqtt_publish of its timeout
\* path, "clear" the assignment of NULL to the handle, "delete" vTaskDelete).
NoWatchdog == [pc |-> "none", wake |-> 0]

\* mqtt.c after boot, with the handle (0 is NULL) and the tasks told apart.
InitWatchdogs ==
    /\ large_buffer = <<>>
    /\ config_timeout_timer = NoTimer
    /\ tasks = <<>>
    /\ wtasks = <<>>
    /\ cfg = Idle
    /\ nvs_blob = <<>>
    /\ variables_list = [nodes |-> <<>>, allocated |-> FALSE]
    /\ samplers = {}
    /\ device = EmptyDevice
    /\ gpio_out = [p \in Pins |-> FALSE]
    /\ gpio_in = [p \in Pins |-> FALSE]
    /\ one_shot_states = <<>>
    /\ timer_states = <<>>
    /\ now = 0
    /\ fault = "none"
    /\ pending = <<>>
    /\ mqtt = [mqtt_connected |-> FALSE, app_connected_mqtt |-> FALSE,
               last_present_time |-> 0, published |-> "none", tick |-> 0,
               connection_timeout_task_handle |-> 0, created |-> 0,
               watchdogs |-> [t \in WatchdogIds |-> NoWatchdog]]
    /\ sensor_states = <<>>
    /\ ble = NoBle
    /\ hist = NoHistory

WatchdogsFrame ==
    /\ MqttOnly
    /\ UNCHANGED hist

\* vTaskDelete(connection_timeout_task_handle) when the handle is not NULL,
\* then the handle is set to NULL.
DeleteWatchdog(mq) ==
    IF mq.connection_timeout_task_handle # 0
    THEN [mq EXCEPT !.watchdogs[mq.connection_timeout_task_handle] = NoWatchdog,
                    !.connection_timeout_task_handle = 0]
    ELSE mq

\* mqtt_event_handler, MQTT_EVENT_CONNECTED.
BrokerConnected ==
    /\ ~mqtt.mqtt_connected
    /\ mqtt' = [mqtt EXCEPT !.mqtt_connected = TRUE]
    /\ WatchdogsFrame

\* mqtt_event_handler, MQTT_EVENT_DISCONNECTED.
BrokerDisconnected ==
    /\ mqtt.mqtt_connected
    /\ mqtt' = DeleteWatchdog([mqtt EXCEPT !.mqtt_connected = FALSE,
                                           !.app_connected_mqtt = FALSE])
    /\ WatchdogsFrame

\* mqtt_event_handler, MQTT_EVENT_DATA on the connection_request topic;
\* pass is whether xTaskCreate returns pdPASS, and only then is the handle
\* written.
AppRequest(data, pass) ==
    /\ mqtt.mqtt_connected
    /\ pass => mqtt.created < MaxWatchdogs
    /\ mqtt' =
         IF data = "Present" THEN [mqtt EXCEPT !.last_present_time = mqtt.tick]
         ELSE IF mqtt.app_connected_mqtt /\ data = "Disconnect"
         THEN DeleteWatchdog([mqtt EXCEPT !.app_connected_mqtt = FALSE])
         ELSE IF ~mqtt.app_connected_mqtt /\ data = "Connect"
         THEN LET connected == [mqtt EXCEPT !.app_connected_mqtt = TRUE,
                                            !.last_present_time = mqtt.tick,
                                            !.published = "Connected"]
              IN  IF pass
                  THEN [connected EXCEPT
                          !.created = @ + 1,
                          !.connection_timeout_task_handle = mqtt.created + 1,
                          !.watchdogs[mqtt.created + 1] =
                              [pc |-> "loop", wake |-> mqtt.tick]]
                  ELSE connected
         ELSE mqtt
    /\ WatchdogsFrame

\* connection_timeout_task: the test at the head of the loop, when the delay
\* has ended; on a timeout the flag is cleared, otherwise the task sleeps.
WatchdogLoop(t) ==
    /\ mqtt.watchdogs[t].pc = "loop" /\ mqtt.watchdogs[t].wake <= mqtt.tick
    /\ mqtt' =
         IF mqtt.app_connected_mqtt
            /\ mqtt.tick - mqtt.last_present_time > PRESENT_TIMEOUT_MS
         THEN [mqtt EXCEPT !.app_connected_mqtt = FALSE,
                           !.watchdogs[t].pc = "publish"]
         ELSE [mqtt EXCEPT !.watchdogs[t].wake = mqtt.tick + WATCHDOG_PERIOD_MS]
    /\ WatchdogsFrame

\* connection_timeout_task: mqtt_publish("Disconnected", ...).
WatchdogPublish(t) ==
    /\ mqtt.watchdogs[t].pc = "publish"
    /\ mqtt' = [mqtt_publish(mqtt, "Disconnected") EXCEPT !.watchdogs[t].pc = "clear"]
    /\ WatchdogsFrame

\* connection_timeout_task: connection_timeout_task_handle = NULL.
WatchdogClear(t) ==
    /\ mqtt.watchdogs[t].pc = "clear"
    /\ mqtt' = [mqtt EXCEPT !.connection_timeout_task_handle = 0,
                            !.watchdogs[t].pc = "delete"]
    /\ WatchdogsFrame

\* connection_timeout_task: vTaskDelete(NULL).
WatchdogDelete(t) ==
    /\ mqtt.watchdogs[t].pc = "delete"
    /\ mqtt' = [mqtt EXCEPT !.watchdogs[t] = NoWatchdog]
    /\ WatchdogsFrame

\* TickStepMs pass on the tick count.
WatchdogTick ==
    /\ mqtt.tick + TickStepMs <= MaxTick
    /\ mqtt' = [mqtt EXCEPT !.tick = @ + TickStepMs]
    /\ WatchdogsFrame

NextWatchdogs ==
    \/ BrokerConnected
    \/ BrokerDisconnected
    \/ \E data \in Messages, pass \in BOOLEAN : AppRequest(data, pass)
    \/ \E t \in WatchdogIds : WatchdogLoop(t)
    \/ \E t \in WatchdogIds : WatchdogPublish(t)
    \/ \E t \in WatchdogIds : WatchdogClear(t)
    \/ \E t \in WatchdogIds : WatchdogDelete(t)
    \/ WatchdogTick

\* The MQTT event task and the watchdog tasks run concurrently.
SpecWatchdogs == InitWatchdogs /\ [][NextWatchdogs]_vars

\* The watchdog tasks that exist; a task that has set the handle to NULL and
\* has only its vTaskDelete(NULL) left is counted as gone.
Watchdogs == {t \in WatchdogIds : mqtt.watchdogs[t].pc \notin {"none", "delete"}}

\* C39: at most one watchdog task exists, and connection_timeout_task_handle
\* is not NULL exactly when one exists.
C39_OneWatchdogAndItsHandle ==
    /\ Cardinality(Watchdogs) <= 1
    /\ mqtt.connection_timeout_task_handle # 0 <=> Watchdogs # {}

----------------------------------------------------------------------------
(* The search for one-wire sensors *)

DETECTION_THRESHOLD == 3
MISS_THRESHOLD == 3

\* The index of the entry of (pin, address) in the list, 0 when there is none.
SensorIndex(states, pin, address) ==
    LET hits == {i \in 1..Len(states) :
                   states[i].pin = pin /\ states[i].address = address}
    IN IF hits = {} THEN 0 ELSE CHOOSE i \in hits : \A j \in hits : i <= j

\* The while loop over onewire_search_next on one pin. s is [states, seen]:
\* the list and the indices marked in the seen array. The array has one
\* element per entry the list had when the search began, so the mark of an
\* entry added by this search is written and read back past its end: oob is
\* what such a read gives.
RECURSIVE SearchPin(_, _, _, _)
SearchPin(s, pin, found, oob) ==
    IF found = <<>> THEN s
    ELSE LET sensor_index == SensorIndex(s.states, pin, Head(found))
             next ==
               IF sensor_index > 0
               THEN [states |-> [s.states EXCEPT ![sensor_index].detection_count =
                                   IF @ < DETECTION_THRESHOLD THEN @ + 1 ELSE @],
                     seen |-> s.seen \cup {sensor_index}]
               ELSE [states |-> Append(s.states, [pin |-> pin, address |-> Head(found),
                                                  detection_count |-> 1]),
                     seen |-> s.seen \cup (IF oob THEN {Len(s.states) + 1} ELSE {})]
         IN SearchPin(next, pin, Tail(found), oob)

\* The addresses of a pin that go into the JSON after the pin was searched.
StableSensors(states, pin) ==
    {<<pin, states[i].address>> : i \in {j \in 1..Len(states) :
        states[j].pin = pin /\ states[j].detection_count >= DETECTION_THRESHOLD}}

\* The loop over the pins: s is [states, seen, ret].
RECURSIVE SearchPins(_, _, _, _)
SearchPins(s, pins, present, oob) ==
    IF pins = <<>> THEN s
    ELSE LET found == SelectSeq(Addresses, LAMBDA a : <<Head(pins), a>> \in present)
             t == SearchPin([states |-> s.states, seen |-> s.seen], Head(pins), found, oob)
         IN SearchPins([states |-> t.states, seen |-> t.seen,
                        ret |-> s.ret \cup StableSensors(t.states, Head(pins))],
                       Tail(pins), present, oob)

\* search_for_one_wire_sensors on a device with the pins one_wire_inputs,
\* when the sensors of present answer: [states, ret], the list it leaves
\* and the (pin, address) pairs of the JSON it returns.
search_for_one_wire_sensors(states, one_wire_inputs, present, oob) ==
    IF one_wire_inputs = <<>> THEN [states |-> states, ret |-> {}]
    ELSE LET s == SearchPins([states |-> states, seen |-> {}, ret |-> {}],
                             one_wire_inputs, present, oob)
             missed == [i \in 1..Len(s.states) |->
                          IF i \notin s.seen /\ s.states[i].detection_count > -MISS_THRESHOLD
                          THEN [s.states[i] EXCEPT !.detection_count = @ - 1]
                          ELSE s.states[i]]
         IN [states |-> SelectSeq(missed, LAMBDA e : e.detection_count > -MISS_THRESHOLD),
             ret |-> s.ret]

\* The history after a search that returned ret while the sensors of
\* present were on the buses.
Searched(h, present, ret) ==
    [run |-> [b \in Buses |-> IF b \in present THEN Min(h.run[b] + 1, MaxRun) ELSE 0],
     miss |-> [b \in Buses |-> IF b \in present THEN 0 ELSE Min(h.miss[b] + 1, MaxRun)],
     held |-> (h.held \ present) \cup (present \cap ret),
     result |-> ret,
     before |-> h.result]

\* One call of search_for_one_wire_sensors while the sensors of present are
\* on the buses.
SearchForOneWireSensors ==
    \E present \in SUBSET Buses, oob \in BOOLEAN :
        LET r == search_for_one_wire_sensors(sensor_states, OneWireInputs, present, oob)
        IN /\ sensor_states' = r.states
           /\ hist' = [hist EXCEPT !.search = Searched(hist.search, present, r.ret)]
           /\ MachineUnchanged
           /\ UNCHANGED <<large_buffer, config_timeout_timer, tasks, wtasks, cfg,
                          nvs_blob, gpio_in, mqtt, now, pending, ble>>

NextSearch == SearchForOneWireSensors

SpecSearch == Init /\ [][NextSearch]_vars

\* C25: a search puts a (pin, address) into its result only if the address
\* was found on the pin by at least DETECTION_THRESHOLD searches in a row,
\* the current one the last of them. Stated for the pairs that the result
\* of the search before did not hold: for those no hold-over can apply.
C25_ReportedAfterThreeInARow ==
    \A b \in hist.search.result \ hist.search.before :
        hist.search.run[b] >= DETECTION_THRESHOLD

\* C26: a pair that was in the result when it was last found stays in the
\* result while it has been missed by one or two searches in a row, and is
\* out of the result and out of the list once MISS_THRESHOLD searches in a
\* row have missed it.
C26_HeldThenDropped ==
    \A b \in hist.search.held :
        /\ hist.search.miss[b] \in 1..(MISS_THRESHOLD - 1) => b \in hist.search.result
        /\ hist.search.miss[b] >= MISS_THRESHOLD
              => /\ b \notin hist.search.result
                 /\ SensorIndex(sensor_states, b[1], b[2]) = 0

----------------------------------------------------------------------------
(* The read characteristics of the BLE service *)

MaxData == 45
MaxFailures == 1
Lengths == {0, 1, 20, 41, MaxData}
Mtus == {23, 24}

\* A text of n bytes: what matters of a byte is which text it is of (tag, a
\* set of strings) and where in it.
Bytes(tag, n) == [i \in 1..n |-> <<tag, i>>]

\* cJSON_PrintUnformatted of the object search_for_one_wire_sensors builds
\* for the two pins: 60 bytes without an address, 18 per address and a comma
\* between two.
OneWireText(ret) ==
    Bytes({"pins"} \cup {b[2] : b \in ret},
          IF ret = {} THEN 60 ELSE 60 + 19 * Cardinality(ret) - 1)

\* A chunk size that ignores the MTU.
chunk_size_whole(remaining, mtu) == remaining

\* (remaining > (ble_mtu - 3)) ? (ble_mtu - 3) : remaining
chunk_size(remaining, mtu) == IF remaining > mtu - 3 THEN mtu - 3 ELSE remaining

\* The body the three read handlers share. st: the statics of the handler;
\* load: what its loader returns if called, [ok, data]; appended: whether
\* os_mbuf_append succeeds if called; frees: whether the handler frees its
\* data when os_mbuf_append fails (monitor_read and one_wire_read do,
\* configuration_read does not). The result is [st, response, rc].
read(st, load, mtu, appended, frees) ==
    IF ~st.loaded /\ ~load.ok THEN [st |-> st, response |-> <<>>, rc |-> "0"]
    ELSE LET cur == IF st.loaded THEN st
                    ELSE [loaded |-> TRUE, data |-> load.data, offset |-> st.offset]
         IN IF cur.offset >= Len(cur.data)
            THEN [st |-> NoRead, response |-> <<>>, rc |-> "0"]
            ELSE LET n == chunk_size(Len(cur.data) - cur.offset, mtu)
                 IN IF ~appended
                    THEN [st |-> IF frees THEN NoRead ELSE cur, response |-> <<>>,
                          rc |-> "BLE_ATT_ERR_INSUFFICIENT_RES"]
                    ELSE [st |-> [cur EXCEPT !.offset = @ + n],
                          response |-> SubSeq(cur.data, cur.offset + 1, cur.offset + n),
                          rc |-> "0"]

\* No transfer of another characteristic is under way: a client reads a
\* characteristic up to the empty response before it reads another.
OneAtATime(handler) == \A g \in Handlers \ {handler} : ~ble[g].loaded

\* The history after a read of handler that began with the statics st,
\* could load load, and returned r.
ReadRecorded(h, handler, st, load, r) ==
    LET was == IF st.loaded THEN h
               ELSE [h EXCEPT !.data = IF load.ok THEN load.data ELSE <<>>,
                              !.gathered = <<>>]
    IN [handler |-> handler, data |-> was.data, gathered |-> was.gathered \o r.response,
        ended |-> r.rc = "0" /\ r.response = <<>>,
        failures |-> IF r.rc = "0" THEN h.failures ELSE h.failures + 1]

ReadFrame ==
    /\ MachineUnchanged
    /\ UNCHANGED <<large_buffer, config_timeout_timer, tasks, wtasks, cfg,
                   nvs_blob, gpio_in, mqtt, now, pending>>

\* configuration_read: load is what load_config_from_nvs finds in the NVS.
ConfigurationRead ==
    \E n \in Lengths, appended \in BOOLEAN :
        LET load == [ok |-> n > 0, data |-> Bytes({"configuration"}, n)]
            r == read(ble.configuration_read, load, ble.ble_mtu, appended, FALSE)
        IN /\ appended \/ hist.reads.failures < MaxFailures
           /\ OneAtATime("configuration_read")
           /\ ble' = [ble EXCEPT !.configuration_read = r.st]
           /\ hist' = [hist EXCEPT !.reads =
                         ReadRecorded(@, "configuration_read", ble.configuration_read, load, r)]
           /\ UNCHANGED sensor_states
           /\ ReadFrame

\* monitor_read: load is what read_variables_json returns.
MonitorRead ==
    \E n \in Lengths \ {0}, found \in BOOLEAN, appended \in BOOLEAN :
        LET load == [ok |-> found, data |-> Bytes({"monitor"}, n)]
            r == read(ble.monitor_read, load, ble.ble_mtu, appended, TRUE)
        IN /\ appended \/ hist.reads.failures < MaxFailures
           /\ OneAtATime("monitor_read")
           /\ ble' = [ble EXCEPT !.monitor_read = r.st]
           /\ hist' = [hist EXCEPT !.reads =
                         ReadRecorded(@, "monitor_read", ble.monitor_read, load, r)]
           /\ UNCHANGED sensor_states
           /\ ReadFrame

\* one_wire_read: it calls search_for_one_wire_sensors when it has no data,
\* while either every sensor or none answers.
OneWireRead ==
    \E present \in {{}, Buses}, oob \in BOOLEAN, appended \in BOOLEAN :
        LET s == search_for_one_wire_sensors(sensor_states, OneWireInputs, present, oob)
            load == [ok |-> TRUE, data |-> OneWireText(s.ret)]
            r == read(ble.one_wire_read, load, ble.ble_mtu, appended, TRUE)
        IN /\ appended \/ hist.reads.failures < MaxFailures
           /\ OneAtATime("one_wire_read")
           /\ ble' = [ble EXCEPT !.one_wire_read = r.st]
           /\ sensor_states' = IF ble.one_wire_read.loaded THEN sensor_states ELSE s.states
           /\ hist' = [hist EXCEPT
                         !.reads = ReadRecorded(@, "one_wire_read", ble.one_wire_read, load, r),
                         !.search = IF ble.one_wire_read.loaded THEN @
                                    ELSE Searched(@, present, s.ret)]
           /\ ReadFrame

\* ble_gap_event, BLE_GAP_EVENT_MTU.
MtuEvent ==
    /\ \E value \in Mtus : ble' = [ble EXCEPT !.ble_mtu = value]
    /\ UNCHANGED <<sensor_states, hist>>
    /\ ReadFrame

NextReads ==
    \/ ConfigurationRead
    \/ MonitorRead
    \/ OneWireRead
    \/ MtuEvent

SpecReads == Init /\ [][NextReads]_vars

\* The number of bytes of the response of a step that is a read.
ResponseLen ==
    IF ble[hist'.reads.handler].loaded
    THEN Len(hist'.reads.gathered) - Len(hist.reads.gathered)
    ELSE Len(hist'.reads.gathered)

\* C27: every response of the three read characteristics has at most
\* ble_mtu - 3 bytes; when a read returns the empty response, the responses
\* since the data was loaded are, end to end, that data; and the empty
\* response comes after finitely many reads: the responses before it are a
\* beginning of the data and each read that succeeds and is not the empty
\* response adds at least one byte to them.
C27_ChunkedReads ==
    /\ [][hist'.reads # hist.reads
            => /\ ResponseLen <= ble.ble_mtu - 3
               /\ hist'.reads.failures = hist.reads.failures
                    => (ResponseLen >= 1 \/ hist'.reads.ended)]_vars
    /\ [](/\ hist.reads.ended => hist.reads.gathered = hist.reads.data
          /\ Len(hist.reads.gathered) <= Len(hist.reads.data)
          /\ hist.reads.gathered = SubSeq(hist.reads.data, 1, Len(hist.reads.gathered)))

\* The one-wire text of two addresses went out in more than two responses
\* and the read that ended the transfer has come.
C27_Witness ==
    /\ hist.reads.handler = "one_wire_read"
    /\ hist.reads.ended
    /\ Len(hist.reads.gathered) > 2 * (ble.ble_mtu - 3)
    /\ ~ble.one_wire_read.loaded

----------------------------------------------------------------------------
(* The read characteristics across BLE connections *)

BLE_HS_CONN_HANDLE_NONE == 65535
MaxClients == 2      \* connections a run may see

\* ble.c after start, with the connection: conn_handle, app_connected_ble
\* and the number of connections the stack has accepted so far.
InitClients ==
    /\ large_buffer = <<>>
    /\ config_timeout_timer = NoTimer
    /\ tasks = <<>>
    /\ wtasks = <<>>
    /\ cfg = Idle
    /\ nvs_blob = <<>>
    /\ variables_list = [nodes |-> <<>>, allocated |-> FALSE]
    /\ samplers = {}
    /\ device = EmptyDevice
    /\ gpio_out = [p \in Pins |-> FALSE]
    /\ gpio_in = [p \in Pins |-> FALSE]
    /\ one_shot_states = <<>>
    /\ timer_states = <<>>
    /\ now = 0
    /\ fault = "none"
    /\ pending = <<>>
    /\ mqtt = NoMqtt
    /\ sensor_states = <<>>
    /\ ble = [ble_mtu |-> 23, configuration_read |-> NoRead, monitor_read |-> NoRead,
              one_wire_read |-> NoRead, conn_handle |-> BLE_HS_CONN_HANDLE_NONE,
              app_connected_ble |-> FALSE, connections |-> 0]
    /\ hist = NoHistory

\* ble_gap_event, BLE_GAP_EVENT_CONNECT; status is event->connect.status.
\* The history of reads begins again with the new client.
GapConnect ==
    /\ ~ble.app_connected_ble
    /\ ble.connections < MaxClients
    /\ \E status \in {0, 1} :
         ble' = IF status = 0
                THEN [ble EXCEPT !.conn_handle = ble.connections + 1,
                                 !.app_connected_ble = TRUE,
                                 !.connections = @ + 1]
                ELSE ble
    /\ hist' = [hist EXCEPT !.reads = NoReads]
    /\ UNCHANGED sensor_states
    /\ ReadFrame

\* ble_gap_event, BLE_GAP_EVENT_DISCONNECT of the connection conn_handle.
GapDisconnect ==
    /\ ble.app_connected_ble
    /\ ble' = [ble EXCEPT !.conn_handle = BLE_HS_CONN_HANDLE_NONE,
                          !.app_connected_ble = FALSE]
    /\ UNCHANGED <<sensor_states, hist>>
    /\ ReadFrame

\* A read request of the connected client.
ClientRead ==
    /\ ble.app_connected_ble
    /\ \/ ConfigurationRead
       \/ MonitorRead
       \/ OneWireRead

NextClients ==
    \/ GapConnect
    \/ GapDisconnect
    \/ ClientRead
    \/ MtuEvent

\* Clients connect, read and disconnect, at any point of a transfer.
SpecClients == InitClients /\ [][NextClients]_vars

\* C40: the first read of a client finds its handler with no data loaded, so
\* that it loads the data and answers from offset 0.
C40_NewClientStartsAtZero ==
    [][(hist.reads.handler = "none" /\ hist'.reads.handler # "none")
         => ~ble[hist'.reads.handler].loaded]_vars

----------------------------------------------------------------------------
(* The exchange of variables with parent and child devices *)

TOPIC_CHILDREN_LISTENER == "/children_listener"

Shared == {"BOOLEAN", "NUMBER"}

\* The object send_variables_to_parents builds, as the list of its items.
VariablesObject(nodes, kinds) ==
    LET sel == SelectSeq(nodes, LAMBDA n : n.type \in kinds)
    IN [i \in 1..Len(sel) |->
          CASE sel[i].type = "BOOLEAN" -> [key |-> sel[i].name, bool |-> sel[i].value]
            [] sel[i].type = "NUMBER" -> [key |-> sel[i].name, number |-> sel[i].value]
            [] OTHER -> [key |-> sel[i].name, number |-> sel[i].cv]]

\* The messages of one call, mqtt_publish included: [topic, payload].
ParentMessages(m, mq, kinds) ==
    LET macs == SelectSeq(m.dev.parent_devices, LAMBDA p : p # "NULL")
    IN IF mq.mqtt_connected
       THEN [i \in 1..Len(macs) |->
               [topic |-> <<macs[i], TOPIC_CHILDREN_LISTENER>>,
                payload |-> VariablesObject(m.vars, kinds)]]
       ELSE <<>>

\* A send_variables_to_parents that adds the Counters to the object.
send_variables_to_parents_counters(m, mq) ==
    ParentMessages(m, mq, Shared \cup {"COUNTER"})

send_variables_to_parents(m, mq) == ParentMessages(m, mq, Shared)

\* tolower on the strings of the documents: "B1" is the one with capitals
\* whose lower-case form is another string of theirs.
ToLower(str) == IF str = "B1" THEN "b1" ELSE str

\* The comparison of keys in cJSON_GetObjectItem, which ignores case.
SameKey(key, name) ==
    /\ Len(key) = Len(name)
    /\ \A j \in 1..Len(key) : ToLower(key[j]) = ToLower(name[j])

\* cJSON_GetObjectItem on the items of an object: the index of the first
\* item whose key is name but for case, 0 when there is none.
cJSON_GetObjectItem(items, name) ==
    LET hits == {k \in 1..Len(items) : SameKey(items[k].key, name)}
    IN IF hits = {} THEN 0 ELSE CHOOSE k \in hits : \A j \in hits : k <= j

ObjectOf(json) == IF Has(Json(json), "Object") THEN Json(json).Object ELSE <<>>

\* What update_variables_from_children leaves in a node.
ChildUpdate(node, items) ==
    LET k == cJSON_GetObjectItem(items, node.name)
    IN IF k = 0 \/ node.type \notin Shared THEN node
       ELSE IF node.type = "BOOLEAN"
       THEN IF Has(items[k], "bool") THEN [node EXCEPT !.value = items[k].bool]
            ELSE node
       ELSE IF Has(items[k], "number") THEN [node EXCEPT !.value = items[k].number]
            ELSE node

update_variables_from_children(m, json_str) ==
    IF cJSON_Parse(json_str) = "NULL" THEN m
    ELSE [m EXCEPT !.vars = [i \in 1..Len(m.vars) |->
                               ChildUpdate(m.vars[i], ObjectOf(cJSON_Parse(json_str)))]]

ChildMessages == {Text("C1"), Text("C2"), Text("C3"), <<"C1">>}

\* app_main: one round of its loop, up to the call of send_variables_to_parents.
SendVariablesToParents ==
    /\ Running
    /\ mqtt' = [mqtt EXCEPT !.children = IF mqtt.mqtt_connected
                                         THEN send_variables_to_parents(Machine, mqtt)
                                         ELSE <<>>]
    /\ hist' = [hist EXCEPT !.ticked = ~@]
    /\ MqttOnly

\* mqtt_event_handler, MQTT_EVENT_DATA on the children_listener topic.
UpdateVariablesFromChildren ==
    /\ Running /\ mqtt.mqtt_connected
    /\ \E json_str \in ChildMessages :
          /\ BoundedStore(update_variables_from_children(Machine, json_str))
          /\ hist' = [hist EXCEPT !.heard = ~@, !.child = json_str]
    /\ UNCHANGED <<large_buffer, config_timeout_timer, tasks, wtasks, cfg,
                   nvs_blob, gpio_in, mqtt, sensor_states, ble, now, pending>>

\* The document P arrives whole at a firmware that has applied none.
SubmitParents ==
    /\ pending = <<>> /\ hist.applied = <<>>
    /\ Receive(Text("P"), 2)

NextChildren ==
    \/ SubmitParents
    \/ ConfDeleteAllTasks
    \/ ConfDeviceInit
    \/ ConfLoadVariables
    \/ ConfWires
    \/ ConfSpawn
    \/ ConfFinish
    \/ ConfReturn
    \/ MqttEventConnected
    \/ MqttEventDisconnected
    \/ SendVariablesToParents
    \/ UpdateVariablesFromChildren
    \/ \E h \in DOMAIN wtasks : ScanStep(h)
    \/ \E pin \in InputPins : SetInput(pin)

SpecChildren == Init /\ [][NextChildren]_vars

\* The items of payload are, one for one, the Boolean and Number nodes with
\* their values.
ExactlyShared(payload, nodes) ==
    /\ Len(payload) = Cardinality({i \in 1..Len(nodes) : nodes[i].type \in Shared})
    /\ \A i \in 1..Len(nodes) :
          /\ nodes[i].type = "BOOLEAN"
                => \E k \in 1..Len(payload) :
                      /\ payload[k].key = nodes[i].name /\ Has(payload[k], "bool")
                      /\ payload[k].bool = nodes[i].value
          /\ nodes[i].type = "NUMBER"
                => \E k \in 1..Len(payload) :
                      /\ payload[k].key = nodes[i].name /\ Has(payload[k], "number")
                      /\ payload[k].number = nodes[i].value
    /\ \A k \in 1..Len(payload) :
          \E i \in 1..Len(nodes) :
              nodes[i].name = payload[k].key /\ nodes[i].type \in Shared

ChildFrame(before, after, items) ==
    \/ after = before
    \/ /\ before.type \in Shared
       /\ after = [before EXCEPT !.value = after.value]
       /\ \E k \in 1..Len(items) :
             /\ items[k].key = before.name
             /\ IF before.type = "BOOLEAN" THEN Has(items[k], "bool")
                ELSE Has(items[k], "number")

\* C24: a children_listener message changes only Boolean and Number
\* variables that the message names with a value of their type; the rest of
\* the store, the outputs and the edge and timer memories are unchanged, and
\* a message that does not parse changes nothing.
C24_ChildMessageFrame ==
    [][hist'.heard # hist.heard
         => /\ Len(variables_list'.nodes) = Len(variables_list.nodes)
            /\ \A i \in 1..Len(variables_list.nodes) :
                  ChildFrame(variables_list.nodes[i], variables_list'.nodes[i],
                             ObjectOf(cJSON_Parse(hist'.child)))
            /\ cJSON_Parse(hist'.child) = "NULL" => variables_list' = variables_list
            /\ UNCHANGED <<gpio_out, one_shot_states, timer_states, device, samplers>>]_vars

----------------------------------------------------------------------------
(* The firmware running the math document *)

\* The math document arrives whole at a firmware that has applied none.
SubmitMath ==
    /\ pending = <<>> /\ hist.applied = <<>>
    /\ Receive(Text("M"), 2)

NextMath ==
    \/ SubmitMath
    \/ ConfDeleteAllTasks
    \/ ConfDeviceInit
    \/ ConfLoadVariables
    \/ ConfWires
    \/ ConfSpawn
    \/ ConfFinish
    \/ ConfReturn
    \/ \E h \in DOMAIN wtasks : ScanStep(h)
    \/ \E pin \in InputPins : SetInput(pin)

SpecMath == Init /\ [][NextMath]_vars

\* The value of the Number stem in the list nodes, -1 when it holds none.
NumberIn(nodes, stem) ==
    IF find_variable(nodes, S(stem)) = 0 THEN -1
    ELSE nodes[find_variable(nodes, S(stem))].value

\* What r_trig last stored for the gate name stem (false when it has none).
GatePrev(stem) ==
    \E i \in 1..Len(one_shot_states) :
        one_shot_states[i].var_name = S(stem) /\ one_shot_states[i].prev_state

MathOutputs == {"n1", "n3", "n4", "n5"}

\* C15: a scan changes the output c of AddMath, SubtractMath, MultiplyMath
\* or DivideMath only when the rung condition is true and the gate of name c
\* last observed false; while the condition stays true c is not rewritten
\* though a or b have changed, and a scan with a false condition writes nothing.
C15_MathWritesOnEdge ==
    [][\A c \in MathOutputs :
          (cfg' = cfg /\ NumberIn(variables_list.nodes, c) # -1
             /\ NumberIn(variables_list'.nodes, c) # NumberIn(variables_list.nodes, c))
              => RungInput /\ ~GatePrev(c)]_vars

\* The sum was written once, its operand has changed since, and the
\* condition has stayed true: the scans have left the sum alone.
C15_Witness ==
    /\ cfg.pc = "idle" /\ hist.live /\ RungInput
    /\ NumberIn(variables_list.nodes, "n3") = 2
    /\ NumberIn(variables_list.nodes, "n1") = 0
    /\ NumberIn(variables_list.nodes, "n4") = 1
    /\ NumberIn(variables_list.nodes, "n5") = 2
    /\ GatePrev("n3") /\ GatePrev("n1") /\ GatePrev("n4") /\ GatePrev("n5")
    /\ \A h \in DOMAIN wtasks : process_block(Machine, wtasks[h].nodes) = Machine

----------------------------------------------------------------------------
(* The contacts *)

\* C16: with the wire [NOContact di1, Coil do1] applied, a scan leaves the
\* output do1 at the level of the input di1, and no_contact returns what
\* read_variable returns.
C16_OutputFollowsInput ==
    (cfg.pc = "idle" /\ hist.live /\ hist.applied = Text("B") /\ Running)
        => /\ \A h \in DOMAIN wtasks :
                 process_block(Machine, wtasks[h].nodes).gpio_out[5] = gpio_in[4]
           /\ no_contact(Machine, S("di1")).ret = read_variable(Machine, S("di1")).ret

----------------------------------------------------------------------------
(* Properties of the apply path *)

\* The node lists of the wires of a document ({} when Wires is no array).
WiresOf(body) ==
    IF body \in AllBodies /\ WiresIsArray(Json(body))
    THEN {Json(body).Wires[k].Nodes : k \in 1..Len(Json(body).Wires)}
    ELSE {}

C2_RefusedLeavesProgram ==
    (cfg.pc = "return" /\ cfg.ret = "refused" /\ ~WiresIsArray(Json(cfg.json)))
        => /\ LiveWires = hist.pre.wires
           /\ device = hist.pre.dev
           /\ variables_list.nodes = hist.pre.vars

\* C3: after every apply the edge-state table and the timer-runtime table
\* are empty: once the store of the new program is loaded and before its
\* first task is created, no entry of the previous program is left.
C3_TablesEmptyAfterApply ==
    cfg.pc = "wires" => one_shot_states = <<>> /\ timer_states = <<>>

\* C4: whenever no apply is in progress the blob is the text of the document
\* applied last; a refused document does not change the blob; an apply on the
\* boot path does not write it.
C4_BlobIsLastApplied ==
    /\ (cfg.pc = "idle" /\ Running) => nvs_blob = hist.applied
    /\ (cfg.pc = "return" /\ cfg.ret = "refused") => nvs_blob = hist.pre.blob
    /\ (cfg.pc # "idle" /\ cfg.loaded_from_nvs) => nvs_blob = hist.pre.blob

\* C5: a valid document delivered in chunks on an empty buffer, with no
\* timeout and no other chunk in between, is applied at its last chunk with
\* the blob a single-chunk submission stores (the bytes of the document), and
\* the buffer is empty afterwards.
C5_ChunkedAsWhole ==
    /\ (cfg.pc = "return" /\ cfg.ret = "applied" /\ hist.tx_clean)
          => pending = <<>> /\ nvs_blob = hist.tx_doc
    /\ (cfg.pc = "idle" /\ hist.tx_clean /\ pending = <<>>) => large_buffer = <<>>

RECURSIVE NamesOf(_)
\* The variable names the nodes of a list pass to the store.
NamesOf(nodes) ==
    IF nodes = <<>> THEN {}
    ELSE LET node == Head(nodes)
         IN (IF node.Type = "Branch"
             THEN NamesOf(node.Nodes1) \cup NamesOf(node.Nodes2)
             ELSE {node.ComboBoxValues[k] : k \in 1..Len(node.ComboBoxValues)})
            \cup NamesOf(Tail(nodes))

\* C7: a document with a wire naming a variable that Variables does not
\* define is rejected at apply time, so every name a wire task passes to the
\* store resolves there.
C7_EveryReferenceResolves ==
    \A h \in DOMAIN wtasks : \A name \in NamesOf(wtasks[h].nodes) :
        find_variable(variables_list.nodes, parse_variable_name(name).base) # 0

\* C10: applying the document that is live once more, the inputs held, ends
\* after the scans have settled in the variable values, output pins and wire
\* tasks that the first apply had ended in.
C10_ReapplyChangesNothing ==
    (hist.reapply /\ hist.held /\ cfg.pc = "idle" /\ Running /\ Stable)
        => /\ variables_list.nodes = hist.pre.vars
           /\ gpio_out = hist.pre.gpio_out
           /\ LiveWires = hist.pre.wires

----------------------------------------------------------------------------
(* The variable store called on its own *)

OneWire1 == [Type |-> "One Wire Input", Name |-> S("t1"), Pin |-> S("in1")]
\* An ADC sensor on a clock pin the device does not have.
Adc1 ==
    [Type |-> "ADC Sensor", Name |-> S("a1"), Sensor_Type |-> "TM7711",
     PD_SCK |-> S("nopin"), DOUT |-> S("in1"), Map_Low |-> 0, Map_High |-> 1,
     Gain |-> 1, Sampling_Rate |-> 1]
\* An entry without Name.
Nameless == [Type |-> "Boolean", Value |-> TRUE]
\* An ADC sensor on two pins of the device.
Adc2 ==
    [Type |-> "ADC Sensor", Name |-> S("a2"), Sensor_Type |-> "TM7711",
     PD_SCK |-> S("out1"), DOUT |-> S("in1"), Map_Low |-> 0, Map_High |-> 1,
     Gain |-> 1, Sampling_Rate |-> 1]
\* The Variables arrays load_variables is called with.
VariableArrays ==
    {<<Boolean1, Counter1, Number1>>, <<DigitalInput1, DigitalOutput1>>,
     <<Boolean1, Adc1>>, <<OneWire1, Boolean1>>, <<Boolean1, Nameless>>,
     <<Timer1, Adc2>>}

\* The names the store is called with.
CalledNames ==
    {S("b1"), S("n1"), S("c1"), SX("c1", ".QU"), SX("c1", ".CV"), S("do1"), S("zz")}

\* What the last call on the store was: its operation, its argument (arg for
\* load_variables, name for the others), what it returned (ret a bool, num a
\* number) and the nodes of the store before it.
NoCall ==
    [op |-> "none", arg |-> <<>>, name |-> S(""), ret |-> FALSE, num |-> 0,
     before |-> <<>>]

Called(op, name, ret, num) ==
    [NoCall EXCEPT !.op = op, !.name = name, !.ret = ret, !.num = num,
                   !.before = variables_list.nodes]

InitStore ==
    /\ large_buffer = <<>>
    /\ config_timeout_timer = NoTimer
    /\ tasks = <<>>
    /\ wtasks = <<>>
    /\ cfg = Idle
    /\ nvs_blob = <<>>
    /\ \E variables \in {<<Boolean1, Counter1, Number1>>, <<DigitalInput1, DigitalOutput1>>} :
          variables_list = [nodes |-> [k \in 1..Len(variables) |-> NewNode(variables[k])],
                            allocated |-> TRUE]
    /\ samplers = {}
    /\ device = DeviceItem
    /\ gpio_out = [p \in Pins |-> FALSE]
    /\ gpio_in = [p \in Pins |-> FALSE]
    /\ one_shot_states = <<>>
    /\ timer_states = <<>>
    /\ now = 0
    /\ fault = "none"
    /\ pending = <<>>
    /\ mqtt = NoMqtt
    /\ sensor_states = <<>>
    /\ ble = NoBle
    /\ hist = NoCall

StoreUnchanged ==
    UNCHANGED <<large_buffer, config_timeout_timer, tasks, wtasks, cfg, nvs_blob,
                gpio_in, mqtt, sensor_states, ble, now, pending>>

\* load_variables is called; the allocation of entry fail_at fails (none when
\* 0) and so does the creation of a sampler task when task_fail.
StoreLoad ==
    /\ Running
    /\ \E variables \in VariableArrays, task_fail \in BOOLEAN :
         \E fail_at \in 0..(Len(variables) + 1) :
            LET r == load_variables(Machine, variables, fail_at, task_fail)
            IN /\ Store(r.m)
               /\ hist' = [Called("load", S(""), r.ret, 0) EXCEPT !.arg = variables]
    /\ StoreUnchanged

StoreRead ==
    /\ Running
    /\ \E name \in CalledNames :
         LET r == read_variable(Machine, name)
         IN Store(r.m) /\ hist' = Called("read", name, r.ret, 0)
    /\ StoreUnchanged

StoreWrite ==
    /\ Running
    /\ \E name \in CalledNames, value \in BOOLEAN :
         /\ Store(write_variable(Machine, name, value))
         /\ hist' = Called("write", name, FALSE, 0)
    /\ StoreUnchanged

StoreReadNumeric ==
    /\ Running
    /\ \E name \in CalledNames :
         LET r == read_numeric_variable(Machine, name)
         IN Store(r.m) /\ hist' = Called("read_numeric", name, FALSE, r.ret)
    /\ StoreUnchanged

StoreWriteNumeric ==
    /\ Running
    /\ \E name \in CalledNames, value \in 0..MaxNum :
         /\ Store(write_numeric_variable(Machine, name, value))
         /\ hist' = Called("write_numeric", name, FALSE, 0)
    /\ StoreUnchanged

\* The array of read_variables_json is passed back to load_variables.
StoreReload ==
    /\ Running
    /\ hist' = [Called("reload", S(""),
                       load_variables(Machine, read_variables_json(Machine), 0, FALSE).ret,
                       0)
                  EXCEPT !.arg = read_variables_json(Machine)]
    /\ Store(load_variables(Machine, read_variables_json(Machine), 0, FALSE).m)
    /\ StoreUnchanged

NextStore ==
    \/ StoreReload
    \/ StoreLoad
    \/ StoreRead
    \/ StoreWrite
    \/ StoreReadNumeric
    \/ StoreWriteNumeric

SpecStore == InitStore /\ [][NextStore]_vars

\* The name does not fit the store for a boolean (numeric) operation: no
\* node bears its base name, or the node is a Counter or Timer and the name
\* has no suffix or a suffix of another kind, or the node is of a kind the
\* operation has no value for.
Misfit(op, name, nodes) ==
    LET p == parse_variable_name(name)
        i == find_variable(nodes, p.base)
        boolean == op \in {"read", "write"}
    IN \/ i = 0
       \/ /\ i # 0
          /\ LET t == nodes[i].type
             IN \/ t \in {"COUNTER", "TIMER"}
                     /\ (IF boolean THEN BoolField(p.suffix) ELSE NumField(p.suffix))
                          \notin DOMAIN nodes[i]
                \/ t \in {"NUMBER", "TIME", "ONE_WIRE", "ADC_SENSOR"} /\ boolean
                \/ t = "BOOLEAN" /\ ~boolean

\* C8: a read or write with a name that is not in the store, or that does
\* not fit the kind of its variable, returns false / 0 and changes nothing:
\* the store is as before and no NULL pointer is dereferenced.
C8_MisfitIsNoOp ==
    (hist.op \in {"read", "write", "read_numeric", "write_numeric"}
       /\ Misfit(hist.op, hist.name, hist.before))
        => /\ fault = "none"
           /\ variables_list.nodes = hist.before
           /\ ~hist.ret /\ hist.num = 0

\* Two nodes have the same name, kind and state fields; the cached value of
\* a sensor is live and is not compared.
SameButLive(a, b) ==
    /\ a.type = b.type
    /\ DOMAIN a = DOMAIN b
    /\ \A f \in DOMAIN a \ (IF a.type \in {"ONE_WIRE", "ADC_SENSOR"} THEN {"value"} ELSE {}) :
          a[f] = b[f]

\* C12: the array read_variables_json produces for a store that holds
\* variables, passed back to load_variables, loads (true is returned, nothing is dereferenced that is
\* not there) and gives a store with the same names, kinds and state fields.
C12_SnapshotLoadsBack ==
    (hist.op = "reload" /\ hist.before # <<>>)
        => /\ fault = "none"
           /\ hist.ret
           /\ Len(variables_list.nodes) = Len(hist.before)
           /\ \A i \in 1..Len(hist.before) :
                 i <= Len(variables_list.nodes)
                    => SameButLive(variables_list.nodes[i], hist.before[i])

\* C9: when load_variables fails on an entry (it returns false, or it leaves
\* out an ADC sensor that did not initialise), the store afterwards is the
\* store that existed before the call.
C9_FailedLoadKeepsStore ==
    (hist.op = "load" /\ hist.arg # <<>>
       /\ (~hist.ret \/ Len(variables_list.nodes) # Len(hist.arg)))
        => /\ fault = "none"
           /\ variables_list.nodes = hist.before
====
